---------------------------- MODULE Spec2Model ----------------------------
(***************************************************************************)
(* A model of the reconciliation core of the ALB ingress controller:       *)
(*   - GroupReconciler.Reconcile (controllers/ingress group reconciler),   *)
(*   - the security group controller (internal/alb/sg),                    *)
(*   - the inbound-permission equality it diffs with.                      *)
(* Each part has its own variables, initial predicate and next-state       *)
(* relation; a specification runs one part and holds the others still.     *)
(***************************************************************************)
EXTENDS Integers, Sequences, FiniteSets, TLC

VARIABLES
    \* ---- permission equality (pure functions applied to drawn inputs)
    eqA,            \* first *ec2.IpPermission
    eqB,            \* second *ec2.IpPermission
    eqRes,          \* results of the comparisons made on eqA, eqB
    \* ---- GroupReconciler
    ingActive,      \* the ingresses that now qualify as active members of the group
    ingFinalizer,   \* the ingresses that carry the group finalizer
    grPc,           \* the step Reconcile takes next ("Load": no run in flight)
    grGroup,        \* the group loaded by the run: Members, InactiveMembers
    grCalls,        \* the collaborator calls of the run, each with its outcome
    grResult,       \* "none", "running", or the run's result: "ok", "err"
    grDeployed,     \* the ingresses whose rules the deployed stack holds
    grFinAtLoad,    \* ingFinalizer as it was when the run started
    \* ---- security group controller
    sgCloud,        \* the security groups of the VPC, as the cloud holds them
    sgGroup,        \* the caller's *SecurityGroup, which Reconcile fills in
    sgLast,         \* the controller's last operation: its input, calls and result
    sgSettled,      \* the last step was a Reconcile that returned nil
    \* ---- controller loop of the GroupReconciler
    ctlQ,           \* the work queue: queue, dirty, processing
    ctlWorker,      \* per worker, the group whose Reconcile it runs
    ctlFailures,    \* the rate limiter's count of failed reconciles per group
    ctlDelayed,     \* the groups waiting for their backoff to pass
    ctlEvents,      \* per group, the requests made since its last reconcile started
    \* ---- WafAcl
    wafAcl,         \* the *WafAcl: LoadBalancerArn, CurrentWafAclId, DesiredWafAclId
    wafCloud,       \* per load balancer, the web ACL the cloud associates with it
    wafLast,        \* the last Reconcile: the record before and after, calls, error
    wafSettled,     \* the last step was a Reconcile that returned nil
    \* ---- annotation parsing of the ALBController
    annMap,         \* the caller's annotation map, which parseAnnotations may change
    annCache,       \* the package's cache: bad annotation sets, names resolved to IDs
    annCloud,       \* the subnets and security groups of the VPC
    annLast,        \* the last parseAnnotations: its input, result and cloud calls
    \* ---- target group annotation parser (a pure function applied to drawn inputs)
    tgIng,          \* the annotations of the ingress given to Parse
    tgRes,          \* what Parse returned
    \* ---- the list of ALB ingresses (pure functions applied to drawn inputs)
    albOptions,     \* the options given to NewALBIngressesFromIngresses
    albIngresses,   \* the list NewALBIngressesFromIngresses returned
    \* ---- ALBIngresses.RemovedIngresses (applied to drawn lists)
    rmLists,        \* the receiver list and the new list
    rmRes,          \* the list returned, and the receiver list as the call left it
    \* ---- Route53: LookupExistingRecord (applied to drawn hostnames and zones)
    r53In,          \* the hostname asked for, the hosted zones and records of the cloud, the package's cache
    r53Res,         \* the record set returned, the cache and the cloud calls of the lookup
    \* ---- AssembleIngressesFromAWS (the function and the goroutines it starts)
    asmLbs,         \* the load balancers of the cluster, as the cloud lists them
    asmPc,          \* where AssembleIngressesFromAWS is
    asmWg,          \* the counter of the wait group
    asmG,           \* per goroutine: where it is, its ingress, the list it read
    asmIngresses,   \* the variable `ingresses` the goroutines append to
    asmRes          \* the list returned

eqVars == <<eqA, eqB, eqRes>>

grVars == <<ingActive, ingFinalizer, grPc, grGroup, grCalls, grResult, grDeployed, grFinAtLoad>>

sgVars == <<sgCloud, sgGroup, sgLast, sgSettled>>

ctlVars == <<ctlQ, ctlWorker, ctlFailures, ctlDelayed, ctlEvents>>

wafVars == <<wafAcl, wafCloud, wafLast, wafSettled>>

annVars == <<annMap, annCache, annCloud, annLast>>

tgVars == <<tgIng, tgRes>>

albVars == <<albOptions, albIngresses>>

rmVars == <<rmLists, rmRes>>

r53Vars == <<r53In, r53Res>>

asmVars == <<asmLbs, asmPc, asmWg, asmG, asmIngresses, asmRes>>

vars == <<eqA, eqB, eqRes,
          ingActive, ingFinalizer, grPc, grGroup, grCalls, grResult, grDeployed, grFinAtLoad,
          sgCloud, sgGroup, sgLast, sgSettled,
          ctlQ, ctlWorker, ctlFailures, ctlDelayed, ctlEvents,
          wafAcl, wafCloud, wafLast, wafSettled,
          annMap, annCache, annCloud, annLast,
          tgIng, tgRes,
          albOptions, albIngresses,
          rmLists, rmRes,
          r53In, r53Res,
          asmLbs, asmPc, asmWg, asmG, asmIngresses, asmRes>>

\* What a step of one part leaves alone: the variables of the other parts.
EQFrame == UNCHANGED <<grVars, sgVars, ctlVars, wafVars, annVars, tgVars, albVars, rmVars, r53Vars, asmVars>>

GRFrame == UNCHANGED <<eqVars, sgVars, ctlVars, wafVars, annVars, tgVars, albVars, rmVars, r53Vars, asmVars>>

SGFrame == UNCHANGED <<eqVars, grVars, ctlVars, wafVars, annVars, tgVars, albVars, rmVars, r53Vars, asmVars>>

CTLFrame == UNCHANGED <<eqVars, grVars, sgVars, wafVars, annVars, tgVars, albVars, rmVars, r53Vars, asmVars>>

WAFFrame == UNCHANGED <<eqVars, grVars, sgVars, ctlVars, annVars, tgVars, albVars, rmVars, r53Vars, asmVars>>

ANNFrame == UNCHANGED <<eqVars, grVars, sgVars, ctlVars, wafVars, tgVars, albVars, rmVars, r53Vars, asmVars>>

TGFrame == UNCHANGED <<eqVars, grVars, sgVars, ctlVars, wafVars, annVars, albVars, rmVars, r53Vars, asmVars>>

ALBFrame == UNCHANGED <<eqVars, grVars, sgVars, ctlVars, wafVars, annVars, tgVars, rmVars, r53Vars, asmVars>>

RMFrame == UNCHANGED <<eqVars, grVars, sgVars, ctlVars, wafVars, annVars, tgVars, albVars, r53Vars, asmVars>>

R53Frame == UNCHANGED <<eqVars, grVars, sgVars, ctlVars, wafVars, annVars, tgVars, albVars, rmVars, asmVars>>

ASMFrame == UNCHANGED <<eqVars, grVars, sgVars, ctlVars, wafVars, annVars, tgVars, albVars, rmVars, r53Vars>>

(***************************************************************************)
(* Go pointers.  A *string or *int64 is Nil or a reference to a value.     *)
(***************************************************************************)
Nil == <<>>

Ref(v) == <<v>>

\* aws.StringValue: the value of a *string, "" for nil.
StringValue(p) == IF p = Nil THEN "" ELSE p[1]

\* aws.Int64Value: the value of an *int64, 0 for nil.
Int64Value(p) == IF p = Nil THEN 0 ELSE p[1]

\* The set of elements of a sequence.
Range(s) == {s[i] : i \in 1..Len(s)}

\* All sequences over S of length at most n.
SeqsUpTo(S, n) == UNION {[1..k -> S] : k \in 0..n}

(***************************************************************************)
(* internal/alb/sg/security_group.go: the diff helpers.                    *)
(***************************************************************************)

\* A faulty variant of userIDGroupPairEquals: the UserId is compared as well.
userIDGroupPairEqualsWithUser(source, target) ==
    /\ StringValue(source.GroupId) = StringValue(target.GroupId)
    /\ StringValue(source.UserId) = StringValue(target.UserId)

\* userIDGroupPairEquals: only the groupId is compared.
userIDGroupPairEquals(source, target) ==
    StringValue(source.GroupId) = StringValue(target.GroupId)

\* ipRangeEquals
ipRangeEquals(source, target) ==
    StringValue(source.CidrIp) = StringValue(target.CidrIp)

\* diffUserIDGroupPairs: source - target, in source order.
RECURSIVE diffUserIDGroupPairs(_, _)
diffUserIDGroupPairs(source, target) ==
    IF source = <<>> THEN <<>>
    ELSE LET sPair == Head(source)
             containsInTarget ==
                 \E i \in 1..Len(target) : userIDGroupPairEquals(sPair, target[i])
         IN  (IF containsInTarget THEN <<>> ELSE <<sPair>>)
                 \o diffUserIDGroupPairs(Tail(source), target)

\* diffIPRanges: source - target, in source order.
RECURSIVE diffIPRanges(_, _)
diffIPRanges(source, target) ==
    IF source = <<>> THEN <<>>
    ELSE LET sRange == Head(source)
             containsInTarget ==
                 \E i \in 1..Len(target) : ipRangeEquals(sRange, target[i])
         IN  (IF containsInTarget THEN <<>> ELSE <<sRange>>)
                 \o diffIPRanges(Tail(source), target)

\* ipPermissionEquals
ipPermissionEquals(source, target) ==
    IF StringValue(source.IpProtocol) # StringValue(target.IpProtocol) THEN FALSE
    ELSE IF Int64Value(source.FromPort) # Int64Value(target.FromPort) THEN FALSE
    ELSE IF Int64Value(source.ToPort) # Int64Value(target.ToPort) THEN FALSE
    ELSE IF Len(diffIPRanges(source.IpRanges, target.IpRanges)) # 0 THEN FALSE
    ELSE IF Len(diffIPRanges(target.IpRanges, source.IpRanges)) # 0 THEN FALSE
    ELSE IF Len(diffUserIDGroupPairs(source.UserIdGroupPairs, target.UserIdGroupPairs)) # 0
         THEN FALSE
    ELSE IF Len(diffUserIDGroupPairs(target.UserIdGroupPairs, source.UserIdGroupPairs)) # 0
         THEN FALSE
    ELSE TRUE

\* A faulty variant of diffIPPermissions: target - source.
RECURSIVE diffIPPermissionsSwapped(_, _)
diffIPPermissionsSwapped(source, target) ==
    IF target = <<>> THEN <<>>
    ELSE LET tPermission == Head(target)
             containsInSource ==
                 \E i \in 1..Len(source) : ipPermissionEquals(tPermission, source[i])
         IN  (IF containsInSource THEN <<>> ELSE <<tPermission>>)
                 \o diffIPPermissionsSwapped(source, Tail(target))

\* diffIPPermissions: source - target, in source order.
RECURSIVE diffIPPermissions(_, _)
diffIPPermissions(source, target) ==
    IF source = <<>> THEN <<>>
    ELSE LET sPermission == Head(source)
             containsInTarget ==
                 \E i \in 1..Len(target) : ipPermissionEquals(sPermission, target[i])
         IN  (IF containsInTarget THEN <<>> ELSE <<sPermission>>)
                 \o diffIPPermissions(Tail(source), target)

(***************************************************************************)
(* Inputs of the equality check.                                           *)
(***************************************************************************)
\* Longest IpRanges / UserIdGroupPairs list drawn.
MaxListLen == 2

\* *string CidrIp values.
CidrPtrs == {Nil, Ref("0.0.0.0/0")}

IpRangeVals == [CidrIp : CidrPtrs]

\* UserIdGroupPair values: two accounts naming the same group, and another group.
PairVals ==
    { [UserId |-> Ref("acct-1"), GroupId |-> Ref("sg-a")],
      [UserId |-> Ref("acct-2"), GroupId |-> Ref("sg-a")],
      [UserId |-> Nil,           GroupId |-> Ref("sg-b")] }

\* (IpProtocol, FromPort, ToPort): present, absent and zero values.
ScalarVals ==
    { <<Ref("tcp"), Ref(80), Ref(80)>>,
      <<Ref("tcp"), Ref(80), Ref(443)>>,
      <<Ref("tcp"), Ref(0),  Ref(80)>>,
      <<Ref("tcp"), Nil,     Ref(80)>>,
      <<Ref(""),    Ref(80), Ref(80)>>,
      <<Nil,        Ref(80), Ref(80)>> }

\* The list parts: long range lists beside short pair lists, and the reverse.
ListVals ==
    (SeqsUpTo(IpRangeVals, MaxListLen) \X SeqsUpTo(PairVals, 1))
        \cup (SeqsUpTo(IpRangeVals, 1) \X SeqsUpTo(PairVals, MaxListLen))

MkPermission(sc, ls) ==
    [IpProtocol |-> sc[1], FromPort |-> sc[2], ToPort |-> sc[3],
     IpRanges |-> ls[1], UserIdGroupPairs |-> ls[2]]

\* The permissions compared.
EqPermissions == {MkPermission(sc, ls) : sc \in ScalarVals, ls \in ListVals}

\* Third permissions for transitivity.
EqThird ==
    {MkPermission(sc, ls) :
        sc \in {<<Ref("tcp"), Ref(80), Ref(80)>>, <<Ref("tcp"), Nil, Ref(80)>>},
        ls \in SeqsUpTo(IpRangeVals, 1) \X SeqsUpTo(PairVals, 1)}

NoRes == [done |-> FALSE]

EQQuiet ==
    /\ eqA = Nil
    /\ eqB = Nil
    /\ eqRes = NoRes

EQInit ==
    /\ eqA \in EqPermissions
    /\ eqB \in EqPermissions
    /\ eqRes = NoRes

\* Apply ipPermissionEquals to the drawn permissions, in every direction.
EQCompare ==
    /\ eqRes = NoRes
    /\ eqRes' = [done |-> TRUE,
                 ab |-> ipPermissionEquals(eqA, eqB),
                 ba |-> ipPermissionEquals(eqB, eqA),
                 aa |-> ipPermissionEquals(eqA, eqA)]
    /\ UNCHANGED <<eqA, eqB>>
    /\ EQFrame

EQNext == EQCompare

\* The CIDRs of a permission's IpRanges, and the group IDs of its pairs, as sets.
CidrSet(p) == {StringValue(p.IpRanges[i].CidrIp) : i \in 1..Len(p.IpRanges)}

GroupIdSet(p) == {StringValue(p.UserIdGroupPairs[i].GroupId) : i \in 1..Len(p.UserIdGroupPairs)}

\* The key ipPermissionEquals compares by; an absent field reads as "" or 0.
PermissionKey(p) ==
    <<StringValue(p.IpProtocol), Int64Value(p.FromPort), Int64Value(p.ToPort),
      CidrSet(p), GroupIdSet(p)>>


(***************************************************************************)
(* GroupReconciler.Reconcile.  One action per step of the handler; a step  *)
(* is the collaborator call and the handler's test of its error.  A run    *)
(* starts with GRLoad and ends when a step returns.                        *)
(***************************************************************************)
\* The ingresses of the cluster.
NumIngresses == 2

Ingresses == 1..NumIngresses

NoGroup == [Members |-> {}, InactiveMembers |-> {}]

Call(name, ok) == [call |-> name, ok |-> ok]

\* return ctrl.Result{}, err
GRReturn(result) ==
    /\ grPc' = "Load"
    /\ grResult' = result

\* fall through to the next statement of Reconcile
GRProceed(step) ==
    /\ grPc' = step
    /\ grResult' = "running"

\* GroupLoader.Load: the active members, and the members that carry the
\* finalizer but are active no longer.
LoadGroup == [Members |-> ingActive, InactiveMembers |-> ingFinalizer \ ingActive]

\* FinalizerManager.AddGroupFinalizer: the members patched (all of them when
\* it succeeds, those in `patched` when it fails part-way).
AddGroupFinalizer(ok, patched) ==
    ingFinalizer' = ingFinalizer \cup (IF ok THEN grGroup.Members ELSE patched)

\* FinalizerManager.RemoveGroupFinalizer.
RemoveGroupFinalizer(ok, patched) ==
    ingFinalizer' = ingFinalizer \ (IF ok THEN grGroup.InactiveMembers ELSE patched)

\* StackDeployer.Deploy: the stack deployed holds the members' rules; a
\* failed deploy leaves any state between the old stack and the new one.
Deploy(ok, partial) ==
    grDeployed' = IF ok THEN grGroup.Members ELSE partial

\* group, err := r.groupLoader.Load(ctx, groupID)
GRLoad(ok) ==
    /\ grPc = "Load"
    /\ grCalls' = <<Call("Load", ok)>>
    /\ grFinAtLoad' = ingFinalizer
    /\ IF ok THEN grGroup' = LoadGroup /\ GRProceed("AddGroupFinalizer")
             ELSE grGroup' = NoGroup /\ GRReturn("err")
    /\ UNCHANGED <<ingActive, ingFinalizer, grDeployed>>
    /\ GRFrame

\* A faulty variant of GRAddGroupFinalizer: the error is dropped.
GRAddGroupFinalizerErrorDropped(ok, patched) ==
    /\ grPc = "AddGroupFinalizer"
    /\ patched \subseteq grGroup.Members
    /\ grCalls' = Append(grCalls, Call("AddGroupFinalizer", ok))
    /\ AddGroupFinalizer(ok, patched)
    /\ GRProceed("Build")
    /\ UNCHANGED <<ingActive, grGroup, grDeployed, grFinAtLoad>>
    /\ GRFrame

\* r.finalizerManager.AddGroupFinalizer(ctx, groupID, group.Members...)
GRAddGroupFinalizer(ok, patched) ==
    /\ grPc = "AddGroupFinalizer"
    /\ patched \subseteq grGroup.Members
    /\ grCalls' = Append(grCalls, Call("AddGroupFinalizer", ok))
    /\ AddGroupFinalizer(ok, patched)
    /\ IF ok THEN GRProceed("Build") ELSE GRReturn("err")
    /\ UNCHANGED <<ingActive, grGroup, grDeployed, grFinAtLoad>>
    /\ GRFrame

\* A faulty variant of GRBuild: the error is dropped.
GRBuildErrorDropped(ok) ==
    /\ grPc = "Build"
    /\ grCalls' = Append(grCalls, Call("Build", ok))
    /\ GRProceed("Marshal")
    /\ UNCHANGED <<ingActive, ingFinalizer, grGroup, grDeployed, grFinAtLoad>>
    /\ GRFrame

\* stack, lb, err := r.modelBuilder.Build(ctx, group)
GRBuild(ok) ==
    /\ grPc = "Build"
    /\ grCalls' = Append(grCalls, Call("Build", ok))
    /\ IF ok THEN GRProceed("Marshal") ELSE GRReturn("err")
    /\ UNCHANGED <<ingActive, ingFinalizer, grGroup, grDeployed, grFinAtLoad>>
    /\ GRFrame

\* stackJSON, err := r.stackMarshaller.Marshal(stack)
GRMarshal(ok) ==
    /\ grPc = "Marshal"
    /\ grCalls' = Append(grCalls, Call("Marshal", ok))
    /\ IF ok THEN GRProceed("Deploy") ELSE GRReturn("err")
    /\ UNCHANGED <<ingActive, ingFinalizer, grGroup, grDeployed, grFinAtLoad>>
    /\ GRFrame

\* A faulty variant of GRDeploy: the error is dropped.
GRDeployErrorDropped(ok, partial) ==
    /\ grPc = "Deploy"
    /\ (grDeployed \cap grGroup.Members) \subseteq partial
    /\ partial \subseteq (grDeployed \cup grGroup.Members)
    /\ grCalls' = Append(grCalls, Call("Deploy", ok))
    /\ Deploy(ok, partial)
    /\ GRProceed("Resolve")
    /\ UNCHANGED <<ingActive, ingFinalizer, grGroup, grFinAtLoad>>
    /\ GRFrame

\* r.stackDeployer.Deploy(ctx, stack)
GRDeploy(ok, partial) ==
    /\ grPc = "Deploy"
    /\ (grDeployed \cap grGroup.Members) \subseteq partial
    /\ partial \subseteq (grDeployed \cup grGroup.Members)
    /\ grCalls' = Append(grCalls, Call("Deploy", ok))
    /\ Deploy(ok, partial)
    /\ IF ok THEN GRProceed("Resolve") ELSE GRReturn("err")
    /\ UNCHANGED <<ingActive, ingFinalizer, grGroup, grFinAtLoad>>
    /\ GRFrame

\* lbARN, err := lb.LoadBalancerARN().Resolve(ctx)
GRResolve(ok) ==
    /\ grPc = "Resolve"
    /\ grCalls' = Append(grCalls, Call("Resolve", ok))
    /\ IF ok THEN GRProceed("RemoveGroupFinalizer") ELSE GRReturn("err")
    /\ UNCHANGED <<ingActive, ingFinalizer, grGroup, grDeployed, grFinAtLoad>>
    /\ GRFrame

\* A faulty variant of GRRemoveGroupFinalizer: called with group.Members.
GRRemoveGroupFinalizerOfMembers(ok, patched) ==
    /\ grPc = "RemoveGroupFinalizer"
    /\ patched \subseteq grGroup.Members
    /\ grCalls' = Append(grCalls, Call("RemoveGroupFinalizer", ok))
    /\ ingFinalizer' = ingFinalizer \ (IF ok THEN grGroup.Members ELSE patched)
    /\ GRReturn(IF ok THEN "ok" ELSE "err")
    /\ UNCHANGED <<ingActive, grGroup, grDeployed, grFinAtLoad>>
    /\ GRFrame

\* r.finalizerManager.RemoveGroupFinalizer(ctx, groupID, group.InactiveMembers...)
GRRemoveGroupFinalizer(ok, patched) ==
    /\ grPc = "RemoveGroupFinalizer"
    /\ patched \subseteq grGroup.InactiveMembers
    /\ grCalls' = Append(grCalls, Call("RemoveGroupFinalizer", ok))
    /\ RemoveGroupFinalizer(ok, patched)
    /\ GRReturn(IF ok THEN "ok" ELSE "err")
    /\ UNCHANGED <<ingActive, grGroup, grDeployed, grFinAtLoad>>
    /\ GRFrame

\* The cluster: an ingress joins the group, or leaves it (its annotation
\* changes or it is marked for deletion), at any moment.
IngressJoin(i) ==
    /\ i \notin ingActive
    /\ ingActive' = ingActive \cup {i}
    /\ UNCHANGED <<ingFinalizer, grPc, grGroup, grCalls, grResult, grDeployed, grFinAtLoad>>
    /\ GRFrame

IngressLeave(i) ==
    /\ i \in ingActive
    /\ ingActive' = ingActive \ {i}
    /\ UNCHANGED <<ingFinalizer, grPc, grGroup, grCalls, grResult, grDeployed, grFinAtLoad>>
    /\ GRFrame

GRInit ==
    /\ ingActive = {}
    /\ ingFinalizer = {}
    /\ grPc = "Load"
    /\ grGroup = NoGroup
    /\ grCalls = <<>>
    /\ grResult = "none"
    /\ grDeployed = {}
    /\ grFinAtLoad = {}

GRNext ==
    \/ \E ok \in BOOLEAN : GRLoad(ok)
    \/ \E ok \in BOOLEAN, patched \in SUBSET Ingresses : GRAddGroupFinalizer(ok, patched)
    \/ \E ok \in BOOLEAN : GRBuild(ok)
    \/ \E ok \in BOOLEAN : GRMarshal(ok)
    \/ \E ok \in BOOLEAN, partial \in SUBSET Ingresses : GRDeploy(ok, partial)
    \/ \E ok \in BOOLEAN : GRResolve(ok)
    \/ \E ok \in BOOLEAN, patched \in SUBSET Ingresses : GRRemoveGroupFinalizer(ok, patched)
    \/ \E i \in Ingresses : IngressJoin(i)
    \/ \E i \in Ingresses : IngressLeave(i)

\* The order of the steps in Reconcile.
StepOrder ==
    <<"Load", "AddGroupFinalizer", "Build", "Marshal", "Deploy", "Resolve",
      "RemoveGroupFinalizer">>

\* Whether the run made the call, and whether the call succeeded.
Called(name) == \E k \in 1..Len(grCalls) : grCalls[k].call = name

Succeeded(name) == \E k \in 1..Len(grCalls) : grCalls[k] = Call(name, TRUE)

Failed(name) == \E k \in 1..Len(grCalls) : grCalls[k] = Call(name, FALSE)

(***************************************************************************)
(* The security group controller (internal/alb/sg/security_group.go).      *)
(* The cloud keeps, per group, its name, its inbound permissions as they   *)
(* were authorized, and its tags.  Reconcile and Delete are one action     *)
(* each: the whole handler with every cloud call it makes; `fail` names    *)
(* the cloud call that returns an error in that run, if it is reached.     *)
(***************************************************************************)
\* Longest InboundPermissions list of a specification.
MaxPerms == 2

SgIds == {"sg-1", "sg-2"}

SgNames == {"alb-a"}

\* Inbound permissions: one by CIDR, and two that differ only in the UserId.
SgPermissions ==
    { MkPermission(<<Ref("tcp"), Ref(80), Ref(80)>>,
                   <<<<[CidrIp |-> Ref("0.0.0.0/0")]>>, <<>>>>),
      MkPermission(<<Ref("tcp"), Ref(443), Ref(443)>>,
                   <<<<>>, <<[UserId |-> Ref("acct-1"), GroupId |-> Ref("sg-a")]>>>>),
      MkPermission(<<Ref("tcp"), Ref(443), Ref(443)>>,
                   <<<<>>, <<[UserId |-> Ref("acct-2"), GroupId |-> Ref("sg-a")]>>>>) }

\* The tags reconcileByNewSGInstance sets.
NameTag(name) == <<"Name", name>>

ManagedByTag == <<"aws.ManagedByKey", "aws.ManagedByValue">>

\* The cloud calls that can fail.
CloudCalls ==
    {"DescribeSecurityGroups", "CreateSecurityGroup", "AuthorizeSecurityGroupIngress",
     "RevokeSecurityGroupIngress", "CreateTags", "DeleteSecurityGroup"}

\* A set as a list, in the order the cloud returns it.
RECURSIVE SetToSeq(_)
SetToSeq(S) ==
    IF S = {} THEN <<>>
    ELSE LET x == CHOOSE y \in S : TRUE IN <<x>> \o SetToSeq(S \ {x})

\* *ec2.SecurityGroup as DescribeSecurityGroups returns it.
Instance(g) ==
    [GroupId |-> Ref(g.GroupId), GroupName |-> Ref(g.GroupName),
     IpPermissions |-> SetToSeq(g.IpPermissions)]

\* cloud.GetSecurityGroupByID: the group, or nil.
GetSecurityGroupByID(cloud, id) ==
    LET found == {g \in cloud : g.GroupId = id}
    IN  IF found = {} THEN Nil ELSE Ref(Instance(CHOOSE g \in found : TRUE))

\* cloud.GetSecurityGroupByName: the group of that name, or nil.
GetSecurityGroupByName(cloud, name) ==
    LET found == {g \in cloud : g.GroupName = name}
    IN  IF found = {} THEN Nil ELSE Ref(Instance(CHOOSE g \in found : TRUE))

\* cloud.CreateSecurityGroupWithContext: a new group, without rules or tags.
CreateSecurityGroup(cloud, id, name) ==
    cloud \cup {[GroupId |-> id, GroupName |-> name, IpPermissions |-> {},
                 Tags |-> {}, byController |-> TRUE]}

\* cloud.AuthorizeSecurityGroupIngressWithContext
AuthorizeSecurityGroupIngress(cloud, id, permissions) ==
    {IF g.GroupId = id
        THEN [g EXCEPT !.IpPermissions = @ \cup Range(permissions)] ELSE g : g \in cloud}

\* cloud.RevokeSecurityGroupIngressWithContext
RevokeSecurityGroupIngress(cloud, id, permissions) ==
    {IF g.GroupId = id
        THEN [g EXCEPT !.IpPermissions = @ \ Range(permissions)] ELSE g : g \in cloud}

\* cloud.CreateTagsWithContext
CreateTags(cloud, id, tags) ==
    {IF g.GroupId = id THEN [g EXCEPT !.Tags = @ \cup tags] ELSE g : g \in cloud}

\* cloud.DeleteSecurityGroupByID, on a group that exists.
DeleteSecurityGroup(cloud, id) == {g \in cloud : g.GroupId # id}

\* Whether the group `id` of the cloud carries the managed-by tag.
IsManaged(cloud, id) == \E g \in cloud : g.GroupId = id /\ ManagedByTag \in g.Tags

\* A mutating cloud call as the controller issued it: its target, its
\* permissions, its outcome, and whether the target then carried the tag.
ApiCall(cloud, api, id, permissions, ok) ==
    [api |-> api, target |-> id, permissions |-> permissions, ok |-> ok,
     managed |-> IsManaged(cloud, id)]

\* What Reconcile or Delete leaves: the cloud, the caller's group, the calls
\* issued, the error, and the instance found (nil when none was).
Outcome(cloud, group, calls, err, instance) ==
    [cloud |-> cloud, group |-> group, calls |-> calls, err |-> err, instance |-> instance]

\* findExistingSGInstance
findExistingSGInstance(group, cloud, fail) ==
    IF group.GroupID # Nil THEN
        IF fail = "DescribeSecurityGroups" THEN [instance |-> Nil, err |-> TRUE]
        ELSE LET instance == GetSecurityGroupByID(cloud, StringValue(group.GroupID))
             IN  IF instance = Nil THEN [instance |-> Nil, err |-> TRUE]
                 ELSE [instance |-> instance, err |-> FALSE]
    ELSE IF group.GroupName # Nil THEN
        IF fail = "DescribeSecurityGroups" THEN [instance |-> Nil, err |-> TRUE]
        ELSE [instance |-> GetSecurityGroupByName(cloud, StringValue(group.GroupName)),
              err |-> FALSE]
    ELSE [instance |-> Nil, err |-> TRUE]

\* reconcileByNewSGInstance; newId is the ID the cloud gives the new group
\* (nil: the cloud refuses to create one).
reconcileByNewSGInstance(group, cloud, fail, newId) ==
    IF fail = "CreateSecurityGroup" \/ newId = Nil THEN
        Outcome(cloud, group,
                <<ApiCall(cloud, "CreateSecurityGroup", "", <<>>, FALSE)>>, TRUE, Nil)
    ELSE
    LET id == newId[1]
        cloud1 == CreateSecurityGroup(cloud, id, StringValue(group.GroupName))
        group1 == [group EXCEPT !.GroupID = newId]
        created == <<ApiCall(cloud, "CreateSecurityGroup", id, <<>>, TRUE)>>
        authorize(ok) ==
            ApiCall(cloud1, "AuthorizeSecurityGroupIngress", id, group1.InboundPermissions, ok)
    IN  IF fail = "AuthorizeSecurityGroupIngress" THEN
            Outcome(cloud1, group1, created \o <<authorize(FALSE)>>, TRUE, Nil)
        ELSE
        LET cloud2 == AuthorizeSecurityGroupIngress(cloud1, id, group1.InboundPermissions)
            tags == {NameTag(StringValue(group1.GroupName)), ManagedByTag}
            tagging(ok) == ApiCall(cloud2, "CreateTags", id, <<>>, ok)
        IN  IF fail = "CreateTags" THEN
                Outcome(cloud2, group1, created \o <<authorize(TRUE), tagging(FALSE)>>,
                        TRUE, Nil)
            ELSE
                Outcome(CreateTags(cloud2, id, tags), group1,
                        created \o <<authorize(TRUE), tagging(TRUE)>>, FALSE, Nil)

\* A faulty variant of reconcileByModifySGInstance: every desired permission is granted.
reconcileByModifySGInstanceGrantAll(group, instance, cloud, fail) ==
    LET group1 == [group EXCEPT
                      !.GroupID = IF @ = Nil THEN instance.GroupId ELSE @,
                      !.GroupName = IF @ = Nil THEN instance.GroupName ELSE @]
        id == StringValue(group1.GroupID)
        permissionsToGrant == group1.InboundPermissions
    IN  IF Len(permissionsToGrant) # 0 THEN
            Outcome(AuthorizeSecurityGroupIngress(cloud, id, permissionsToGrant), group1,
                    <<ApiCall(cloud, "AuthorizeSecurityGroupIngress", id, permissionsToGrant, TRUE)>>,
                    FALSE, Ref(instance))
        ELSE Outcome(cloud, group1, <<>>, FALSE, Ref(instance))

\* reconcileByModifySGInstance
reconcileByModifySGInstance(group, instance, cloud, fail) ==
    LET group1 == [group EXCEPT
                      !.GroupID = IF @ = Nil THEN instance.GroupId ELSE @,
                      !.GroupName = IF @ = Nil THEN instance.GroupName ELSE @]
        id == StringValue(group1.GroupID)
        permissionsToRevoke == diffIPPermissions(instance.IpPermissions, group1.InboundPermissions)
        revoking == Len(permissionsToRevoke) # 0
        revoke(ok) ==
            IF revoking
                THEN <<ApiCall(cloud, "RevokeSecurityGroupIngress", id, permissionsToRevoke, ok)>>
                ELSE <<>>
    IN  IF revoking /\ fail = "RevokeSecurityGroupIngress" THEN
            Outcome(cloud, group1, revoke(FALSE), TRUE, Ref(instance))
        ELSE
        LET cloud1 == IF revoking
                         THEN RevokeSecurityGroupIngress(cloud, id, permissionsToRevoke)
                         ELSE cloud
            permissionsToGrant ==
                diffIPPermissions(group1.InboundPermissions, instance.IpPermissions)
            granting == Len(permissionsToGrant) # 0
            grant(ok) ==
                IF granting
                    THEN <<ApiCall(cloud1, "AuthorizeSecurityGroupIngress", id, permissionsToGrant, ok)>>
                    ELSE <<>>
        IN  IF granting /\ fail = "AuthorizeSecurityGroupIngress" THEN
                Outcome(cloud1, group1, revoke(TRUE) \o grant(FALSE), TRUE, Ref(instance))
            ELSE
                Outcome(IF granting
                           THEN AuthorizeSecurityGroupIngress(cloud1, id, permissionsToGrant)
                           ELSE cloud1,
                        group1, revoke(TRUE) \o grant(TRUE), FALSE, Ref(instance))

\* A faulty variant of Reconcile: a group is created whatever was found.
ReconcileAlwaysNew(group, cloud, fail, newId) ==
    LET found == findExistingSGInstance(group, cloud, fail)
    IN  IF found.err THEN Outcome(cloud, group, <<>>, TRUE, Nil)
        ELSE reconcileByNewSGInstance(group, cloud, fail, newId)

\* securityGroupController.Reconcile
Reconcile(group, cloud, fail, newId) ==
    LET found == findExistingSGInstance(group, cloud, fail)
    IN  IF found.err THEN Outcome(cloud, group, <<>>, TRUE, Nil)
        ELSE IF found.instance # Nil
            THEN reconcileByModifySGInstance(group, found.instance[1], cloud, fail)
            ELSE reconcileByNewSGInstance(group, cloud, fail, newId)

\* cloud.DeleteSecurityGroupByID as Delete calls it: the cloud's error for a
\* group it does not hold is returned as it is.
DeleteSecurityGroupByID(group, cloud, id, fail, instance) ==
    IF fail = "DeleteSecurityGroup" \/ GetSecurityGroupByID(cloud, id) = Nil
        THEN Outcome(cloud, group,
                     <<ApiCall(cloud, "DeleteSecurityGroup", id, <<>>, FALSE)>>, TRUE, instance)
        ELSE Outcome(DeleteSecurityGroup(cloud, id), group,
                     <<ApiCall(cloud, "DeleteSecurityGroup", id, <<>>, TRUE)>>, FALSE, instance)

\* securityGroupController.Delete
Delete(group, cloud, fail) ==
    IF group.GroupID # Nil THEN
        DeleteSecurityGroupByID(group, cloud, group.GroupID[1], fail, Nil)
    ELSE
    LET found == findExistingSGInstance(group, cloud, fail)
    IN  IF found.err THEN Outcome(cloud, group, <<>>, TRUE, Nil)
        ELSE IF found.instance # Nil
            THEN DeleteSecurityGroupByID(group, cloud, found.instance[1].GroupId[1], fail,
                                         found.instance)
            ELSE Outcome(cloud, group, <<>>, FALSE, Nil)

\* The IDs the cloud can give a new group: any that is free, nil when none is.
NewIds(cloud) ==
    LET free == SgIds \ {g.GroupId : g \in cloud}
    IN  IF free = {} THEN {Nil} ELSE {Ref(id) : id \in free}

\* An operation as it ran: the specification and the cloud it was given, what
\* it left of the specification, its calls, error and instance, and whether a
\* fault of the cloud changed its course (clean is the outcome without fault).
Operation(op, out, clean) ==
    [op |-> op, spec |-> sgGroup, pre |-> sgCloud, group |-> out.group,
     calls |-> out.calls, err |-> out.err, instance |-> out.instance,
     faulted |-> out # clean, settled |-> sgSettled]

NoOperation == [op |-> "none"]

\* The caller runs Reconcile on its group.
SGReconcile(fail, newId) ==
    /\ newId \in NewIds(sgCloud)
    /\ LET out == Reconcile(sgGroup, sgCloud, fail, newId)
       IN  /\ sgCloud' = out.cloud
           /\ sgGroup' = out.group
           /\ sgLast' = Operation("Reconcile", out,
                                   Reconcile(sgGroup, sgCloud, "none", newId))
           /\ sgSettled' = ~out.err
    /\ SGFrame

\* The caller runs Delete on its group.
SGDelete(fail) ==
    /\ LET out == Delete(sgGroup, sgCloud, fail)
       IN  /\ sgCloud' = out.cloud
           /\ sgGroup' = out.group
           /\ sgLast' = Operation("Delete", out, Delete(sgGroup, sgCloud, "none"))
           /\ sgSettled' = FALSE
    /\ SGFrame

\* The caller names another group in its specification.
SGSetIdentity(id, name) ==
    /\ <<id, name>> # <<sgGroup.GroupID, sgGroup.GroupName>>
    /\ sgGroup' = [sgGroup EXCEPT !.GroupID = id, !.GroupName = name]
    /\ sgLast' = NoOperation
    /\ sgSettled' = FALSE
    /\ UNCHANGED sgCloud
    /\ SGFrame

\* The caller adds an inbound permission to its specification.
SGAddPermission(permission) ==
    /\ Len(sgGroup.InboundPermissions) < MaxPerms
    /\ sgGroup' = [sgGroup EXCEPT !.InboundPermissions = Append(@, permission)]
    /\ sgLast' = NoOperation
    /\ sgSettled' = FALSE
    /\ UNCHANGED sgCloud
    /\ SGFrame

\* The caller drops an inbound permission from its specification.
SGDropPermission ==
    /\ sgGroup.InboundPermissions # <<>>
    /\ sgGroup' = [sgGroup EXCEPT !.InboundPermissions = Tail(@)]
    /\ sgLast' = NoOperation
    /\ sgSettled' = FALSE
    /\ UNCHANGED sgCloud
    /\ SGFrame

\* After a Reconcile that returned nil, the caller builds the specification
\* it passed again, without the fields Reconcile filled in.
SGSameSpec ==
    /\ sgSettled
    /\ sgLast.op = "Reconcile"
    /\ sgGroup # sgLast.spec
    /\ sgGroup' = sgLast.spec
    /\ UNCHANGED <<sgCloud, sgLast, sgSettled>>
    /\ SGFrame

\* Someone else creates a security group in the VPC: it has no tag of the
\* controller.
SGOutsideCreate(id, name, permissions) ==
    /\ \A g \in sgCloud : g.GroupId # id /\ g.GroupName # name
    /\ sgCloud' = sgCloud \cup {[GroupId |-> id, GroupName |-> name,
                                 IpPermissions |-> permissions, Tags |-> {},
                                 byController |-> FALSE]}
    /\ sgLast' = NoOperation
    /\ sgSettled' = FALSE
    /\ UNCHANGED sgGroup
    /\ SGFrame

SGInit ==
    /\ sgCloud = {}
    /\ sgGroup = [GroupID |-> Nil, GroupName |-> Nil, InboundPermissions |-> <<>>]
    /\ sgLast = NoOperation
    /\ sgSettled = FALSE

SGNext ==
    \/ \E fail \in CloudCalls \cup {"none"}, newId \in {Nil} \cup {Ref(id) : id \in SgIds} :
          SGReconcile(fail, newId)
    \/ \E fail \in CloudCalls \cup {"none"} : SGDelete(fail)
    \/ \E id \in {Nil} \cup {Ref(i) : i \in SgIds},
          name \in {Nil} \cup {Ref(n) : n \in SgNames} : SGSetIdentity(id, name)
    \/ \E permission \in SgPermissions : SGAddPermission(permission)
    \/ SGDropPermission
    \/ SGSameSpec
    \/ \E id \in SgIds, name \in SgNames, permissions \in SUBSET SgPermissions :
          SGOutsideCreate(id, name, permissions)

\* The security group controller at rest, for the other specifications.
SGQuiet ==
    /\ sgCloud = {}
    /\ sgGroup = Nil
    /\ sgLast = NoOperation
    /\ sgSettled = FALSE

(***************************************************************************)
(* The controller loop.  SetupWithManager builds a controller with         *)
(* MaxConcurrentReconciles workers over a rate-limited work queue of group *)
(* IDs; the Ingress watch enqueues the groups an event touches.  Each      *)
(* worker takes a group from the queue, runs Reconcile on it, re-adds it   *)
(* with backoff when Reconcile failed, and marks it done.                  *)
(***************************************************************************)
\* controller.Options.MaxConcurrentReconciles
MaxConcurrentReconciles == 1

NumGroups == 2

MaxFailures == 2

MaxEvents == 2

Groups == 1..NumGroups

Workers == 1..MaxConcurrentReconciles

NoWork == 0

\* A faulty variant of Add: the item is queued even while it is processed.
AddWhileProcessing(q, item) ==
    IF item \in q.dirty THEN q
    ELSE [q EXCEPT !.dirty = @ \cup {item}, !.queue = Append(@, item)]

\* workqueue Add: an item already marked is left alone; an item being
\* processed is marked and queued only when its processing is done.
Add(q, item) ==
    IF item \in q.dirty THEN q
    ELSE IF item \in q.processing THEN [q EXCEPT !.dirty = @ \cup {item}]
    ELSE [q EXCEPT !.dirty = @ \cup {item}, !.queue = Append(@, item)]

\* workqueue Get: the head of the queue starts processing.
Get(q) ==
    [q EXCEPT !.queue = Tail(@),
              !.processing = @ \cup {Head(q.queue)},
              !.dirty = @ \ {Head(q.queue)}]

\* workqueue Done: processing ends; an item marked meanwhile is queued.
Done(q, item) ==
    IF item \in q.dirty
        THEN [q EXCEPT !.processing = @ \ {item}, !.queue = Append(@, item)]
        ELSE [q EXCEPT !.processing = @ \ {item}]

\* One more request for a reconcile of the group, counted up to MaxEvents.
Requested(events, g) ==
    [events EXCEPT ![g] = IF @ < MaxEvents THEN @ + 1 ELSE @]

\* The Ingress watch enqueues the group of a changed Ingress.
CtlEvent(g) ==
    /\ ctlEvents[g] < MaxEvents
    /\ ctlQ' = Add(ctlQ, g)
    /\ ctlEvents' = Requested(ctlEvents, g)
    /\ UNCHANGED <<ctlWorker, ctlFailures, ctlDelayed>>
    /\ CTLFrame

\* A free worker takes the next group and starts its Reconcile.
CtlGet(w) ==
    /\ ctlWorker[w] = NoWork
    /\ ctlQ.queue # <<>>
    /\ ctlQ' = Get(ctlQ)
    /\ ctlWorker' = [ctlWorker EXCEPT ![w] = Head(ctlQ.queue)]
    /\ ctlEvents' = [ctlEvents EXCEPT ![Head(ctlQ.queue)] = 0]
    /\ UNCHANGED <<ctlFailures, ctlDelayed>>
    /\ CTLFrame

\* The worker's Reconcile returns: on an error the group is re-added with
\* backoff, otherwise its failures are forgotten; then it is marked done.
CtlReconcileReturns(w, ok) ==
    /\ ctlWorker[w] # NoWork
    /\ LET g == ctlWorker[w]
       IN  /\ IF ok
                 THEN /\ ctlFailures' = [ctlFailures EXCEPT ![g] = 0]
                      /\ UNCHANGED ctlDelayed
                 ELSE /\ ctlFailures[g] < MaxFailures
                      /\ ctlFailures' = [ctlFailures EXCEPT ![g] = @ + 1]
                      /\ ctlDelayed' = ctlDelayed \cup {g}
           /\ ctlQ' = Done(ctlQ, g)
    /\ ctlWorker' = [ctlWorker EXCEPT ![w] = NoWork]
    /\ UNCHANGED ctlEvents
    /\ CTLFrame

\* The backoff of a failed group has passed: it is added to the queue.
CtlBackoffPassed(g) ==
    /\ g \in ctlDelayed
    /\ ctlDelayed' = ctlDelayed \ {g}
    /\ ctlQ' = Add(ctlQ, g)
    /\ ctlEvents' = Requested(ctlEvents, g)
    /\ UNCHANGED <<ctlWorker, ctlFailures>>
    /\ CTLFrame

CTLInit ==
    /\ ctlQ = [queue |-> <<>>, dirty |-> {}, processing |-> {}]
    /\ ctlWorker = [w \in Workers |-> NoWork]
    /\ ctlFailures = [g \in Groups |-> 0]
    /\ ctlDelayed = {}
    /\ ctlEvents = [g \in Groups |-> 0]

CTLNext ==
    \/ \E g \in Groups : CtlEvent(g)
    \/ \E w \in Workers : CtlGet(w)
    \/ \E w \in Workers, ok \in BOOLEAN : CtlReconcileReturns(w, ok)
    \/ \E g \in Groups : CtlBackoffPassed(g)

\* The controller loop before SetupWithManager, for the other specifications.
CTLQuiet ==
    /\ ctlQ = Nil
    /\ ctlWorker = Nil
    /\ ctlFailures = Nil
    /\ ctlDelayed = {}
    /\ ctlEvents = Nil

(***************************************************************************)
(* WafAcl.  The record holds the ARN of the load balancer, the web ACL now *)
(* associated with it and the web ACL the annotations ask for; Reconcile   *)
(* associates or disassociates through WAFRegionalsvc.                     *)
(***************************************************************************)
AclIds == {"acl-1", "acl-2"}

LoadBalancerArns == {"arn-1", "arn-2"}

AclPtrs == {Nil} \cup {Ref(a) : a \in AclIds}

ArnPtrs == {Nil} \cup {Ref(a) : a \in LoadBalancerArns}

WafCalls == {"Associate", "Disassociate"}

\* A call to WAFRegionalsvc as the record issued it.
WafCall(api, arn, acl, ok) == [api |-> api, arn |-> arn, acl |-> acl, ok |-> ok]

\* What Reconcile, associate or disassociate leaves: the record, the cloud,
\* the calls issued and the error.
WafOutcome(w, cloud, calls, err) == [w |-> w, cloud |-> cloud, calls |-> calls, err |-> err]

\* A faulty variant of associate: the record keeps its current web ACL.
associateNotRecorded(w, cloud, fail) ==
    IF w.LoadBalancerArn = Nil THEN WafOutcome(w, cloud, <<>>, FALSE)
    ELSE IF fail = "Associate" THEN
        WafOutcome(w, cloud,
                   <<WafCall("Associate", w.LoadBalancerArn, w.DesiredWafAclId, FALSE)>>, TRUE)
    ELSE
        WafOutcome(w, [cloud EXCEPT ![w.LoadBalancerArn[1]] = w.DesiredWafAclId],
                   <<WafCall("Associate", w.LoadBalancerArn, w.DesiredWafAclId, TRUE)>>, FALSE)

\* WafAcl.associate
associate(w, cloud, fail) ==
    IF w.LoadBalancerArn = Nil THEN WafOutcome(w, cloud, <<>>, FALSE)
    ELSE IF fail = "Associate" THEN
        WafOutcome(w, cloud,
                   <<WafCall("Associate", w.LoadBalancerArn, w.DesiredWafAclId, FALSE)>>, TRUE)
    ELSE
        WafOutcome([w EXCEPT !.CurrentWafAclId = w.DesiredWafAclId],
                   [cloud EXCEPT ![w.LoadBalancerArn[1]] = w.DesiredWafAclId],
                   <<WafCall("Associate", w.LoadBalancerArn, w.DesiredWafAclId, TRUE)>>, FALSE)

\* A faulty variant of disassociate: the record forgets its current web ACL
\* before the cloud answers.
disassociateForgetsFirst(w, cloud, fail) ==
    IF w.LoadBalancerArn = Nil THEN WafOutcome(w, cloud, <<>>, FALSE)
    ELSE IF fail = "Disassociate" THEN
        WafOutcome([w EXCEPT !.CurrentWafAclId = Nil], cloud,
                   <<WafCall("Disassociate", w.LoadBalancerArn, Nil, FALSE)>>, TRUE)
    ELSE
        WafOutcome([w EXCEPT !.CurrentWafAclId = Nil],
                   [cloud EXCEPT ![w.LoadBalancerArn[1]] = Nil],
                   <<WafCall("Disassociate", w.LoadBalancerArn, Nil, TRUE)>>, FALSE)

\* WafAcl.disassociate
disassociate(w, cloud, fail) ==
    IF w.LoadBalancerArn = Nil THEN WafOutcome(w, cloud, <<>>, FALSE)
    ELSE IF fail = "Disassociate" THEN
        WafOutcome(w, cloud, <<WafCall("Disassociate", w.LoadBalancerArn, Nil, FALSE)>>, TRUE)
    ELSE
        WafOutcome([w EXCEPT !.CurrentWafAclId = Nil],
                   [cloud EXCEPT ![w.LoadBalancerArn[1]] = Nil],
                   <<WafCall("Disassociate", w.LoadBalancerArn, Nil, TRUE)>>, FALSE)

\* A faulty variant of WafAcl.Reconcile: a desired web ACL is associated
\* whatever the current one is.
WafAclReconcileAlwaysAssociates(w, cloud, fail) ==
    IF w.DesiredWafAclId = Nil THEN
        IF w.CurrentWafAclId = Nil THEN WafOutcome(w, cloud, <<>>, FALSE)
        ELSE disassociate(w, cloud, fail)
    ELSE associate(w, cloud, fail)

\* WafAcl.Reconcile
WafAclReconcile(w, cloud, fail) ==
    IF w.DesiredWafAclId = Nil THEN
        IF w.CurrentWafAclId = Nil THEN WafOutcome(w, cloud, <<>>, FALSE)
        ELSE disassociate(w, cloud, fail)
    ELSE IF w.CurrentWafAclId = Nil THEN associate(w, cloud, fail)
    ELSE IF StringValue(w.CurrentWafAclId) # StringValue(w.DesiredWafAclId)
        THEN associate(w, cloud, fail)
        ELSE WafOutcome(w, cloud, <<>>, FALSE)

\* NewWafAcl
NewWafAcl(desired, loadBalancerArn) ==
    [LoadBalancerArn |-> loadBalancerArn, CurrentWafAclId |-> Nil, DesiredWafAclId |-> desired]

NoWafOperation == [op |-> "none"]

\* A record is built for an ingress and its load balancer, if it has one.
WafNew(desired, loadBalancerArn) ==
    /\ wafAcl' = NewWafAcl(desired, loadBalancerArn)
    /\ wafAcl' # wafAcl
    /\ wafLast' = NoWafOperation
    /\ wafSettled' = FALSE
    /\ UNCHANGED wafCloud
    /\ WAFFrame

\* The owner of the record sets the web ACL found on the load balancer.
WafSetCurrent(current) ==
    /\ current # wafAcl.CurrentWafAclId
    /\ wafAcl' = [wafAcl EXCEPT !.CurrentWafAclId = current]
    /\ wafLast' = NoWafOperation
    /\ wafSettled' = FALSE
    /\ UNCHANGED wafCloud
    /\ WAFFrame

\* The owner of the record runs Reconcile.
WafReconcile(fail) ==
    /\ LET out == WafAclReconcile(wafAcl, wafCloud, fail)
       IN  /\ wafAcl' = out.w
           /\ wafCloud' = out.cloud
           /\ wafLast' = [op |-> "Reconcile", pre |-> wafAcl, post |-> out.w,
                          calls |-> out.calls, err |-> out.err, settled |-> wafSettled]
           /\ wafSettled' = ~out.err
    /\ WAFFrame

WAFInit ==
    /\ wafAcl = NewWafAcl(Nil, Nil)
    /\ wafCloud = [a \in LoadBalancerArns |-> Nil]
    /\ wafLast = NoWafOperation
    /\ wafSettled = FALSE

WAFNext ==
    \/ \E desired \in AclPtrs, loadBalancerArn \in ArnPtrs : WafNew(desired, loadBalancerArn)
    \/ \E current \in AclPtrs : WafSetCurrent(current)
    \/ \E fail \in WafCalls \cup {"none"} : WafReconcile(fail)

\* No WafAcl, for the other specifications.
WAFQuiet ==
    /\ wafAcl = Nil
    /\ wafCloud = Nil
    /\ wafLast = NoWafOperation
    /\ wafSettled = FALSE

(***************************************************************************)
(* Strings.  A Go string is a sequence of characters; the operators below  *)
(* are those of package strings and strconv that the parsers use.          *)
(***************************************************************************)
\* The characters of the model's strings, in the order of their codes.
Chars ==
    <<" ", ",", "-", ".", "/", "0", "1", "2", "3", "4", "5", "6", "7", "8", "9", "=",
      "H", "P", "T",
      "a", "b", "c", "d", "e", "f", "g", "i", "k", "l", "n", "o", "p", "r", "s",
      "t", "u", "v">>

CharCode(c) == CHOOSE k \in 1..Len(Chars) : Chars[k] = c

Digits == <<"0", "1", "2", "3", "4", "5", "6", "7", "8", "9">>

IsDigit(c) == \E k \in 1..Len(Digits) : Digits[k] = c

DigitValue(c) == (CHOOSE k \in 1..Len(Digits) : Digits[k] = c) - 1

\* Whether s sorts before t, as Go compares strings.
RECURSIVE StringLess(_, _)
StringLess(s, t) ==
    IF t = <<>> THEN FALSE
    ELSE IF s = <<>> THEN TRUE
    ELSE IF Head(s) # Head(t) THEN CharCode(Head(s)) < CharCode(Head(t))
    ELSE StringLess(Tail(s), Tail(t))

\* strings.HasPrefix
HasPrefix(s, prefix) ==
    Len(s) >= Len(prefix) /\ SubSeq(s, 1, Len(prefix)) = prefix

\* strings.Split for a separator of one character.
RECURSIVE Split(_, _)
Split(s, sep) ==
    IF \A k \in 1..Len(s) : s[k] # sep THEN <<s>>
    ELSE LET k == CHOOSE k \in 1..Len(s) : s[k] = sep /\ \A j \in 1..(k - 1) : s[j] # sep
         IN  <<SubSeq(s, 1, k - 1)>> \o Split(SubSeq(s, k + 1, Len(s)), sep)

\* strings.Join
RECURSIVE Join(_, _)
Join(parts, sep) ==
    IF parts = <<>> THEN <<>>
    ELSE IF Len(parts) = 1 THEN parts[1]
    ELSE parts[1] \o sep \o Join(Tail(parts), sep)

\* strings.TrimSpace
RECURSIVE TrimSpace(_)
TrimSpace(s) ==
    IF s = <<>> THEN s
    ELSE IF Head(s) = " " THEN TrimSpace(Tail(s))
    ELSE IF s[Len(s)] = " " THEN TrimSpace(SubSeq(s, 1, Len(s) - 1))
    ELSE s

\* The value of a string of digits.
RECURSIVE DecimalValue(_)
DecimalValue(s) ==
    IF s = <<>> THEN 0
    ELSE 10 * DecimalValue(SubSeq(s, 1, Len(s) - 1)) + DigitValue(s[Len(s)])

\* strconv.ParseInt(s, 10, 64) with its error dropped: the value of an
\* optionally signed string of digits, and 0 for any other string.
ParseInt(s) ==
    LET signed == s # <<>> /\ Head(s) = "-"
        digits == IF signed THEN Tail(s) ELSE s
    IN  IF digits = <<>> \/ \E k \in 1..Len(digits) : ~IsDigit(digits[k]) THEN 0
        ELSE IF signed THEN 0 - DecimalValue(digits) ELSE DecimalValue(digits)

\* sort.Sort of a slice of strings, by insertion.
RECURSIVE SortStrings(_)
SortStrings(list) ==
    IF list = <<>> THEN <<>>
    ELSE LET rest == SortStrings(Tail(list))
             Before(x) == ~StringLess(Head(list), x)
             After(x) == StringLess(Head(list), x)
         IN  SelectSeq(rest, Before) \o <<Head(list)>> \o SelectSeq(rest, After)

(***************************************************************************)
(* Annotation parsing of the ALBController.  parseAnnotations reads the    *)
(* annotation map of an ingress, resolves subnets and security groups      *)
(* through the package's cache and the cloud, and returns the record.      *)
(***************************************************************************)
backendProtocolKey == "alb.ingress.kubernetes.io/backend-protocol"

certificateArnKey == "alb.ingress.kubernetes.io/certificate-arn"

healthcheckPathKey == "alb.ingress.kubernetes.io/healthcheck-path"

portKey == "alb.ingress.kubernetes.io/port"

schemeKey == "alb.ingress.kubernetes.io/scheme"

securityGroupsKey == "alb.ingress.kubernetes.io/security-groups"

subnetsKey == "alb.ingress.kubernetes.io/subnets"

successCodesKey == "alb.ingress.kubernetes.io/successCodes"

tagsKey == "alb.ingress.kubernetes.io/tags"

\* The string literals of the parsers.
SubnetPrefix == <<"s", "u", "b", "n", "e", "t", "-">>

SgPrefix == <<"s", "g", "-">>

Internal == <<"i", "n", "t", "e", "r", "n", "a", "l">>

InternetFacing ==
    <<"i", "n", "t", "e", "r", "n", "e", "t", "-", "f", "a", "c", "i", "n", "g">>

Http == <<"H", "T", "T", "P">>

Code200 == <<"2", "0", "0">>

Slash == <<"/">>

\* annotations[key]: the value, or the empty string of an absent key.
Lookup(annotations, key) ==
    IF key \in DOMAIN annotations THEN annotations[key] ELSE <<>>

\* annotations[key] = value
SetKey(annotations, key, value) ==
    [k \in DOMAIN annotations \cup {key} |-> IF k = key THEN value ELSE annotations[k]]

\* delete(annotations, key)
RemoveKey(annotations, key) == [k \in DOMAIN annotations \ {key} |-> annotations[k]]

\* A faulty variant of parsePort: the port annotation is not read.
parsePortDefaultOnly(port, certArn) == IF certArn = <<>> THEN <<80>> ELSE <<443>>

\* parsePort
parsePort(port, certArn) ==
    IF port = <<>> /\ certArn = <<>> THEN <<80>>
    ELSE IF port = <<>> /\ certArn # <<>> THEN <<443>>
    ELSE LET tokens == Split(port, ",")
         IN  [k \in 1..Len(tokens) |-> ParseInt(tokens[k])]

\* parseHealthcheckPath
parseHealthcheckPath(s) == IF s = <<>> THEN Ref(Slash) ELSE Ref(s)

\* A faulty variant of parseScheme: every value is taken.
parseSchemeAny(s) == [scheme |-> Ref(s), err |-> Nil]

\* parseScheme
parseScheme(s) ==
    IF s = <<>> THEN [scheme |-> Ref(<<>>), err |-> Ref("scheme missing")]
    ELSE IF s # Internal /\ s # InternetFacing
        THEN [scheme |-> Ref(<<>>), err |-> Ref("scheme invalid")]
    ELSE [scheme |-> Ref(s), err |-> Nil]

\* stringToAwsSlice
stringToAwsSlice(s) ==
    LET parts == Split(s, ",")
        trimmed == [k \in 1..Len(parts) |-> TrimSpace(parts[k])]
        NotEmpty(p) == p # <<>>
    IN  SelectSeq(trimmed, NotEmpty)

\* stringToTags
stringToTags(s) ==
    LET rawTags == stringToAwsSlice(s)
        IsPair(rawTag) == rawTag # <<>> /\ Len(Split(rawTag, "=")) >= 2
        kept == SelectSeq(rawTags, IsPair)
    IN  [k \in 1..Len(kept) |->
            [Key |-> Split(kept[k], "=")[1], Value |-> Split(kept[k], "=")[2]]]

\* A call to the cloud as a parser issued it.
AnnCall(api, ids, names, ok) == [api |-> api, ids |-> ids, names |-> names, ok |-> ok]

\* cache.Get(name): whether the cache holds the name, and its ID.
Cached(cache, name) == name \in DOMAIN cache.ids

\* A faulty variant of ResolveFromCache: the cache is not read, every name
\* is looked up.
ResolveWithoutCache(tokens, prefix, cache) ==
    LET Known(t) == HasPrefix(t, prefix)
        Unknown(t) == ~Known(t)
    IN  [out |-> SelectSeq(tokens, Known), names |-> SelectSeq(tokens, Unknown)]

\* The tokens of a list that need no lookup, each as its ID, and the names
\* that do: the first loop of parseSubnets and of parseSecurityGroups.
ResolveFromCache(tokens, prefix, cache) ==
    LET Known(t) == HasPrefix(t, prefix) \/ Cached(cache, t)
        Unknown(t) == ~Known(t)
        known == SelectSeq(tokens, Known)
    IN  [out |-> [k \in 1..Len(known) |->
                     IF HasPrefix(known[k], prefix) THEN known[k] ELSE cache.ids[known[k]]],
         names |-> SelectSeq(tokens, Unknown)]

\* The IDs of a set of subnets or groups, as the cloud lists them.
RECURSIVE ListIds(_)
ListIds(S) ==
    IF S = {} THEN <<>>
    ELSE LET first == CHOOSE x \in S : \A y \in S : x = y \/ StringLess(x, y)
         IN  <<first>> \o ListIds(S \ {first})

\* The resources of the cloud whose Name tag is one of names.
TaggedName(resources, names) ==
    {r \in resources : r.Name # Nil /\ \E k \in 1..Len(names) : names[k] = r.Name[1]}

\* cache.Set(value, id) for each listed resource that has a Name tag, in the
\* order listed.
RECURSIVE CacheNames(_, _, _)
CacheNames(cache, resources, listed) ==
    IF listed = <<>> THEN cache
    ELSE LET r == CHOOSE r \in resources : r.Id = Head(listed)
         IN  CacheNames([cache EXCEPT !.ids = SetKey(@, r.Name[1], r.Id)],
                        resources, Tail(listed))

\* What a parser leaves: its result, its error, the cache and its calls.
Parsed(out, err, cache, calls) == [out |-> out, err |-> err, cache |-> cache, calls |-> calls]

\* The end of parseSubnets and of parseSecurityGroups: the IDs sorted, or an
\* error when there are none.
Resolved(out, none, cache, calls) ==
    IF Len(out) = 0 THEN Parsed(<<>>, Ref(none), cache, calls)
    ELSE Parsed(SortStrings(out), Nil, cache, calls)

\* The resources the cloud listed for the names: each is cached under its
\* Name tag and added to the result.
Listed(first, found, api, none, cache, calls) ==
    Resolved(first.out \o ListIds({r.Id : r \in found}), none,
             CacheNames(cache, found, ListIds({r.Id : r \in found})),
             calls \o <<AnnCall(api, <<>>, first.names, TRUE)>>)

\* The names not cached are looked up together by their Name tag.
LookUpNames(first, resources, api, none, cache, fail, calls) ==
    IF Len(first.names) = 0 THEN Resolved(first.out, none, cache, calls)
    ELSE IF fail = api THEN
        Parsed(<<>>, Ref(api), cache, calls \o <<AnnCall(api, <<>>, first.names, FALSE)>>)
    ELSE Listed(first, TaggedName(resources, first.names), api, none, cache, calls)

\* Whether the cloud holds every subnet ID resolved so far.
Verified(first, cloud, fail) ==
    /\ fail # "DescribeSubnets"
    /\ \A k \in 1..Len(first.out) : \E r \in cloud.subnets : r.Id = first.out[k]

\* The call that verifies the subnet IDs resolved so far, if there are any.
Verify(first, cloud, fail) ==
    IF Len(first.out) > 0
        THEN <<AnnCall("DescribeSubnets", first.out, <<>>, Verified(first, cloud, fail))>>
        ELSE <<>>

\* parseSubnets after its first loop.
subnetsFrom(first, cache, cloud, fail) ==
    IF Len(first.out) > 0 /\ ~Verified(first, cloud, fail)
        THEN Parsed(<<>>, Ref("DescribeSubnets"), cache, Verify(first, cloud, fail))
        ELSE LookUpNames(first, cloud.subnets, "DescribeSubnets", "no subnets resolved",
                         cache, fail, Verify(first, cloud, fail))

\* ALBController.parseSubnets
parseSubnets(s, cache, cloud, fail) ==
    subnetsFrom(ResolveFromCache(stringToAwsSlice(s), SubnetPrefix, cache), cache, cloud, fail)

\* parseSecurityGroups
parseSecurityGroups(s, cache, cloud, fail) ==
    LookUpNames(ResolveFromCache(stringToAwsSlice(s), SgPrefix, cache), cloud.groups,
                "DescribeSecurityGroups", "no security groups resolved", cache, fail, <<>>)

\* What parseAnnotations leaves: the record returned (nil or a record), the
\* error, the caller's map, the cache and the cloud calls.
AnnOutcome(resp, err, annotations, cache, calls) ==
    [resp |-> resp, err |-> err, annotations |-> annotations, cache |-> cache,
     calls |-> calls]

\* A faulty variant of SetBad: the failure is not remembered.
SetBadForgets(cache, given) == cache

\* cache.Set(cacheKey, "error", 1*time.Hour): the key is made of the
\* annotations as they were given.
SetBad(cache, given) == [cache EXCEPT !.bad = @ \cup {given}]

\* if annotations[key] == "" { annotations[key] = value }
SetDefault(annotations, key, value) ==
    IF Lookup(annotations, key) = <<>> THEN SetKey(annotations, key, value) ELSE annotations

\* The record parseAnnotations builds.
annotationsT(annotations, subnets, securitygroups, scheme) ==
    [backendProtocol |-> Ref(Lookup(annotations, backendProtocolKey)),
     port |-> parsePort(Lookup(annotations, portKey), Lookup(annotations, certificateArnKey)),
     subnets |-> subnets,
     scheme |-> scheme,
     securityGroups |-> securitygroups,
     successCodes |-> Ref(Lookup(annotations, successCodesKey)),
     tags |-> stringToTags(Lookup(annotations, tagsKey)),
     healthcheckPath |-> parseHealthcheckPath(Lookup(annotations, healthcheckPathKey)),
     certificateArn |-> IF certificateArnKey \in DOMAIN annotations
                           THEN Ref(annotations[certificateArnKey]) ELSE Nil]

\* parseAnnotations from the scheme on.
annotationsAfterScheme(given, annotations, subnets, securitygroups, scheme) ==
    IF scheme.err # Nil THEN
        AnnOutcome(Nil, scheme.err, annotations, SetBad(securitygroups.cache, given),
                   subnets.calls \o securitygroups.calls)
    ELSE
        AnnOutcome(Ref(annotationsT(annotations, subnets.out, securitygroups.out,
                                    scheme.scheme)),
                   Nil, annotations, securitygroups.cache,
                   subnets.calls \o securitygroups.calls)

\* parseAnnotations from the security groups on.
annotationsAfterSecurityGroups(given, annotations, subnets, securitygroups) ==
    IF securitygroups.err # Nil THEN
        AnnOutcome(Nil, securitygroups.err, annotations,
                   SetBad(securitygroups.cache, given),
                   subnets.calls \o securitygroups.calls)
    ELSE annotationsAfterScheme(given, annotations, subnets, securitygroups,
                                parseScheme(Lookup(annotations, schemeKey)))

\* parseAnnotations from the subnets on.
annotationsAfterSubnets(given, annotations, subnets, cloud, fail) ==
    IF subnets.err # Nil THEN
        AnnOutcome(Nil, subnets.err, annotations, SetBad(subnets.cache, given), subnets.calls)
    ELSE annotationsAfterSecurityGroups(
             given, annotations, subnets,
             parseSecurityGroups(Lookup(annotations, securityGroupsKey), subnets.cache,
                                 cloud, fail))

\* parseAnnotations once the defaults are written into the caller's map.
annotationsWithDefaults(given, annotations, cache, cloud, fail) ==
    IF Lookup(annotations, subnetsKey) = <<>> THEN
        AnnOutcome(Nil, Ref("subnets missing"), annotations, SetBad(cache, given), <<>>)
    ELSE annotationsAfterSubnets(
             given, annotations,
             parseSubnets(Lookup(annotations, subnetsKey), cache, cloud, fail), cloud, fail)

\* ALBController.parseAnnotations
parseAnnotations(annotations, cache, cloud, fail) ==
    IF annotations \in cache.bad THEN AnnOutcome(Nil, Nil, annotations, cache, <<>>)
    ELSE annotationsWithDefaults(
             annotations,
             SetDefault(SetDefault(annotations, successCodesKey, Code200),
                        backendProtocolKey, Http),
             cache, cloud, fail)

MaxCached == 1

\* The subnets and security groups the VPC may hold: one of each without a
\* Name tag, which is always there, and one of each with the Name tag `a`.
SubnetOne == [Id |-> SubnetPrefix \o <<"1">>, Name |-> Nil]

SubnetTwo == [Id |-> SubnetPrefix \o <<"2">>, Name |-> Ref(<<"a">>)]

GroupOne == [Id |-> SgPrefix \o <<"1">>, Name |-> Nil]

GroupTwo == [Id |-> SgPrefix \o <<"2">>, Name |-> Ref(<<"a">>)]

Clouds ==
    {[subnets |-> {SubnetOne} \cup S, groups |-> {GroupOne} \cup G] :
        S \in SUBSET {SubnetTwo}, G \in SUBSET {GroupTwo}}

\* The annotation maps callers pass: a valid one, and maps that differ from
\* it in one annotation.
BaseAnnotations ==
    [k \in {subnetsKey, securityGroupsKey, schemeKey} |->
        IF k = subnetsKey THEN SubnetOne.Id
        ELSE IF k = securityGroupsKey THEN GroupOne.Id
        ELSE Internal]

AnnotationMaps ==
    {BaseAnnotations,
     SetKey(BaseAnnotations, tagsKey,
            <<"k", "=", "v", ",", "n", "o", "t", "-", "a", "-", "k", "v">>),
     SetKey(BaseAnnotations, subnetsKey, <<"a", ",", "b">>),
     SetKey(BaseAnnotations, subnetsKey, SubnetPrefix \o <<"9">>),
     SetKey(BaseAnnotations, subnetsKey, SubnetOne.Id \o <<",", " ", "a">>),
     RemoveKey(BaseAnnotations, subnetsKey),
     SetKey(BaseAnnotations, securityGroupsKey, <<"a">>),
     SetKey(BaseAnnotations, schemeKey, <<"e", "x", "t", "e", "r", "n", "a", "l">>),
     RemoveKey(BaseAnnotations, schemeKey),
     SetKey(SetKey(BaseAnnotations, certificateArnKey, <<"c">>), schemeKey, InternetFacing),
     SetKey(SetKey(SetKey(SetKey(SetKey(BaseAnnotations,
         portKey, <<"8", "0", ",", "8", "o">>),
         healthcheckPathKey, <<"/", "a">>),
         backendProtocolKey, <<"H", "T", "T", "P", "S">>),
         successCodesKey, <<"4", "0", "4">>),
         tagsKey, <<"k", "=", "v", ",", " ", "a", "=", "b", "=", "c">>)}

NoIds == [name \in {} |-> <<>>]

EmptyCache == [bad |-> {}, ids |-> NoIds]

NoParse == [op |-> "none"]

\* A call of parseAnnotations as it ran: the map and the cache it was given,
\* what it left of the map, what it returned, its cloud calls, and what the
\* same call returns when the cache is empty.
ParseOperation(out, fresh) ==
    [op |-> "parseAnnotations", pre |-> annMap, post |-> out.annotations,
     resp |-> out.resp, err |-> out.err, calls |-> out.calls, cache |-> annCache,
     fresh |-> [resp |-> fresh.resp, err |-> fresh.err]]

\* The effect of a call of parseAnnotations on the map and the cache.
AnnParsed(out, fresh) ==
    /\ Cardinality(out.cache.bad) <= MaxCached
    /\ annMap' = out.annotations
    /\ annCache' = out.cache
    /\ annLast' = ParseOperation(out, fresh)

\* The controller parses the annotations of an ingress.
AnnParse(fail) ==
    /\ AnnParsed(parseAnnotations(annMap, annCache, annCloud, fail),
                 parseAnnotations(annMap, EmptyCache, annCloud, fail))
    /\ UNCHANGED annCloud
    /\ ANNFrame

\* The controller builds the annotation map of another ingress.
AnnNewMap(annotations) ==
    /\ annotations # annMap
    /\ annMap' = annotations
    /\ annLast' = NoParse
    /\ UNCHANGED <<annCache, annCloud>>
    /\ ANNFrame

\* The time to live of a bad annotation set passes.
AnnExpireBad(annotations) ==
    /\ annotations \in annCache.bad
    /\ annCache' = [annCache EXCEPT !.bad = @ \ {annotations}]
    /\ annLast' = NoParse
    /\ UNCHANGED <<annMap, annCloud>>
    /\ ANNFrame

\* The time to live of a cached name passes.
AnnExpireName(name) ==
    /\ name \in DOMAIN annCache.ids
    /\ annCache' = [annCache EXCEPT !.ids = RemoveKey(@, name)]
    /\ annLast' = NoParse
    /\ UNCHANGED <<annMap, annCloud>>
    /\ ANNFrame

\* Subnets and security groups are made or deleted in the VPC.
AnnCloudChanges(cloud) ==
    /\ cloud # annCloud
    /\ annCloud' = cloud
    /\ annLast' = NoParse
    /\ UNCHANGED <<annMap, annCache>>
    /\ ANNFrame

ANNInit ==
    /\ annMap = BaseAnnotations
    /\ annCache = EmptyCache
    /\ annCloud = [subnets |-> {SubnetOne}, groups |-> {GroupOne}]
    /\ annLast = NoParse

ANNNext ==
    \/ \E fail \in {"none", "DescribeSubnets", "DescribeSecurityGroups"} : AnnParse(fail)
    \/ \E annotations \in AnnotationMaps : AnnNewMap(annotations)
    \/ \E annotations \in annCache.bad : AnnExpireBad(annotations)
    \/ \E name \in DOMAIN annCache.ids : AnnExpireName(name)
    \/ \E cloud \in Clouds : AnnCloudChanges(cloud)

\* No annotations parsed, for the other specifications.
ANNQuiet ==
    /\ annMap = Nil
    /\ annCache = Nil
    /\ annCloud = Nil
    /\ annLast = NoParse

(***************************************************************************)
(* The target group annotation parser.  Parse reads the target group       *)
(* annotations of an ingress and returns a Config or an error.             *)
(***************************************************************************)
DefaultBackendProtocol == "HTTP"

DefaultHealthyThresholdCount == 2

DefaultUnhealthyThresholdCount == 2

DefaultSuccessCodes == "200"

\* elbv2.TargetTypeEnumInstance
TargetTypeEnumInstance == "instance"

MaxTokens == 2

\* The tokens a target-group-attributes annotation is made of.
AttrTokens ==
    {<<"a", "=", "1">>, <<" ", "a", "=", "2">>, <<"b", "=", "1">>, <<>>,
     <<"c">>, <<"a", "=", "b", "=", "c">>}

\* albelbv2.TargetGroupAttributes.Set: the value of the key is replaced, or
\* the pair is appended.
Set(attributes, k, v) ==
    IF \E i \in 1..Len(attributes) : attributes[i].Key = k
        THEN [i \in 1..Len(attributes) |->
                 IF attributes[i].Key = k THEN [Key |-> k, Value |-> v] ELSE attributes[i]]
        ELSE Append(attributes, [Key |-> k, Value |-> v])

\* The loop of Parse over the raw attributes: the attributes set and the
\* tokens found bad.
RECURSIVE ParseAttrs(_, _, _)
ParseAttrs(rawAttrs, attributes, badAttrs) ==
    IF rawAttrs = <<>> THEN [attributes |-> attributes, badAttrs |-> badAttrs]
    ELSE LET rawAttr == Head(rawAttrs)
             parts == Split(rawAttr, "=")
         IN  IF rawAttr = <<>> THEN ParseAttrs(Tail(rawAttrs), attributes, badAttrs)
             ELSE IF Len(parts) # 2
                 THEN ParseAttrs(Tail(rawAttrs), attributes, Append(badAttrs, rawAttr))
                 ELSE ParseAttrs(Tail(rawAttrs), Set(attributes, parts[1], parts[2]),
                                 badAttrs)

\* What Parse returns: a Config or none, and an error or nil.
TgReturn(config, err) == [done |-> TRUE, config |-> config, err |-> err]

\* A faulty variant of Parse: the tokens found bad are dropped.
ParseSkipsBadAttrs(ing) ==
    LET targetType == IF ing.targetType # Nil THEN ing.targetType
                      ELSE Ref(ing.DefaultTargetType)
        parsed == IF ing.attributes # Nil
                     THEN ParseAttrs(stringToAwsSlice(ing.attributes[1]), <<>>, <<>>)
                     ELSE [attributes |-> <<>>, badAttrs |-> <<>>]
    IN  IF targetType[1] # TargetTypeEnumInstance /\ targetType[1] # "pod" THEN
            TgReturn(Nil, Ref([annotation |-> "target-type", names |-> <<>>]))
        ELSE
            TgReturn(Ref([TargetType |-> targetType,
                          BackendProtocol |-> Ref(DefaultBackendProtocol),
                          HealthyThresholdCount |-> Ref(DefaultHealthyThresholdCount),
                          UnhealthyThresholdCount |-> Ref(DefaultUnhealthyThresholdCount),
                          SuccessCodes |-> Ref(DefaultSuccessCodes),
                          Attributes |-> parsed.attributes]), Nil)

\* targetGroup.Parse
Parse(ing) ==
    LET targetType == IF ing.targetType # Nil THEN ing.targetType
                      ELSE Ref(ing.DefaultTargetType)
        backendProtocol == IF ing.backendProtocol # Nil THEN ing.backendProtocol
                           ELSE Ref(DefaultBackendProtocol)
        healthyThresholdCount ==
            IF ing.healthyThresholdCount # Nil THEN ing.healthyThresholdCount
            ELSE Ref(DefaultHealthyThresholdCount)
        unhealthyThresholdCount ==
            IF ing.unhealthyThresholdCount # Nil THEN ing.unhealthyThresholdCount
            ELSE Ref(DefaultUnhealthyThresholdCount)
        legacy == IF ing.successCodesLegacy # Nil THEN ing.successCodesLegacy
                  ELSE Ref(DefaultSuccessCodes)
        successCodes == IF ing.successCodes # Nil THEN ing.successCodes ELSE legacy
        parsed == IF ing.attributes # Nil
                     THEN ParseAttrs(stringToAwsSlice(ing.attributes[1]), <<>>, <<>>)
                     ELSE [attributes |-> <<>>, badAttrs |-> <<>>]
    IN  IF targetType[1] # TargetTypeEnumInstance /\ targetType[1] # "pod" THEN
            TgReturn(Nil, Ref([annotation |-> "target-type", names |-> <<>>]))
        ELSE IF Len(parsed.badAttrs) > 0 THEN
            TgReturn(Nil, Ref([annotation |-> "target-group-attributes",
                               names |-> Join(parsed.badAttrs, <<",", " ">>)]))
        ELSE
            TgReturn(Ref([TargetType |-> targetType,
                          BackendProtocol |-> backendProtocol,
                          HealthyThresholdCount |-> healthyThresholdCount,
                          UnhealthyThresholdCount |-> unhealthyThresholdCount,
                          SuccessCodes |-> successCodes,
                          Attributes |-> parsed.attributes]), Nil)

\* The annotations of an ingress, as the parser package reads them: nil for
\* an annotation that is absent or has no valid content.  The attributes are
\* the tokens joined by commas.
TgIngresses ==
    {[targetType |-> tt, DefaultTargetType |-> dt, backendProtocol |-> bp,
      healthyThresholdCount |-> h, unhealthyThresholdCount |-> u,
      successCodesLegacy |-> sl, successCodes |-> sc,
      tokens |-> tokens,
      attributes |-> IF tokens = Nil THEN Nil ELSE Ref(Join(tokens[1], <<",">>))] :
        tt \in {Nil, Ref("instance"), Ref("pod"), Ref("ip")},
        dt \in {"instance", "ip"},
        bp \in {Nil, Ref("HTTPS")},
        h \in {Nil, Ref(3)},
        u \in {Nil, Ref(5)},
        sl \in {Nil, Ref("404")},
        sc \in {Nil, Ref("200-299")},
        tokens \in {Nil} \cup {Ref(t) : t \in SeqsUpTo(AttrTokens, MaxTokens)}}

TGInit ==
    /\ tgIng \in TgIngresses
    /\ tgRes = NoRes

\* Parse is applied to the ingress.
TGParse ==
    /\ ~tgRes.done
    /\ tgRes' = Parse(tgIng)
    /\ UNCHANGED tgIng
    /\ TGFrame

TGNext == TGParse

\* No ingress parsed, for the other specifications.
TGQuiet ==
    /\ tgIng = Nil
    /\ tgRes = NoRes

(***************************************************************************)
(* The list of ALB ingresses.  NewALBIngressesFromIngresses builds the     *)
(* list from the ingresses of the cluster and the list held before.        *)
(***************************************************************************)
MaxIngresses == 2

\* The IDs (namespace/name) and the class annotations of the ingresses of
\* the cluster; the empty string is an ingress without class.
IngressIds == {"default/a", "default/b"}

IngressClasses == {"", "alb", "nginx"}

\* An *extensions.Ingress: its ID, its class, and whether its annotations
\* are bad.
IngressResources ==
    [id : IngressIds, class : IngressClasses, bad : BOOLEAN]

\* class.IsValid: the ingress carries the class of the controller, or no
\* class while the controller's class is the default class.
IsValid(ingResource, controller, defClass) ==
    \/ ingResource.class = "" /\ controller = defClass
    \/ ingResource.class = controller

\* ALBIngresses.FindByID: the position and the ingress of the first element
\* with the ID, or -1 and nil.
FindByID(a, id) ==
    IF \E p \in 1..Len(a) : a[p].Id = id
        THEN LET p == CHOOSE p \in 1..Len(a) :
                          a[p].Id = id /\ \A q \in 1..(p - 1) : a[q].Id # id
             IN  [p |-> p - 1, v |-> Ref(a[p])]
        ELSE [p |-> 0 - 1, v |-> Nil]

\* albingress.NewALBIngressFromIngress: nil for an ingress with a problem,
\* else the ALBIngress of the ingress, with the load balancer of the
\* existing one.
NewALBIngressFromIngress(ingResource, existingIngress) ==
    IF ingResource.bad THEN Nil
    ELSE Ref([Id |-> ingResource.id, ingress |-> ingResource,
              LoadBalancer |-> IF existingIngress # Nil
                                  THEN existingIngress[1].LoadBalancer ELSE Nil])

\* A faulty variant of NewALBIngressesFromIngresses: the class is not
\* looked at.
NewALBIngressesFromIngressesOfAnyClass(o) ==
    [k \in 1..Len(o.Ingresses) |->
        NewALBIngressFromIngress(o.Ingresses[k],
                                 FindByID(o.ALBIngresses, o.Ingresses[k].id).v)]

\* The loop of NewALBIngressesFromIngresses from the k-th ingress on.
RECURSIVE AppendFrom(_, _, _)
AppendFrom(o, k, list) ==
    IF k > Len(o.Ingresses) THEN list
    ELSE IF ~IsValid(o.Ingresses[k], o.IngressClass, o.DefaultIngressClass)
        THEN AppendFrom(o, k + 1, list)
    ELSE AppendFrom(o, k + 1,
                    Append(list, NewALBIngressFromIngress(
                                     o.Ingresses[k],
                                     FindByID(o.ALBIngresses, o.Ingresses[k].id).v)))

\* NewALBIngressesFromIngresses
NewALBIngressesFromIngresses(o) == AppendFrom(o, 1, <<>>)

\* The lists the controller may hold from before: none, or the ingress
\* default/a with or without its load balancer.
HeldIngresses ==
    {<<>>} \cup
    {<<[Id |-> "default/a", ingress |-> [id |-> "default/a", class |-> "alb", bad |-> FALSE],
        LoadBalancer |-> lb]>> : lb \in {Nil, Ref("lb-a")}}

\* The options NewALBIngressesFromIngresses may be given.
IngressesOptions ==
    [Ingresses : SeqsUpTo(IngressResources, MaxIngresses),
     ALBIngresses : HeldIngresses,
     IngressClass : {"alb", ""},
     DefaultIngressClass : {"alb", ""}]

ALBInit ==
    /\ albOptions \in IngressesOptions
    /\ albIngresses = NoRes

\* The controller builds its list from the ingresses of the cluster.
ALBNew ==
    /\ ~albIngresses.done
    /\ albIngresses' = [done |-> TRUE, list |-> NewALBIngressesFromIngresses(albOptions)]
    /\ UNCHANGED albOptions
    /\ ALBFrame

ALBNext == ALBNew

\* No list built, for the other specifications.
ALBQuiet ==
    /\ albOptions = Nil
    /\ albIngresses = NoRes

(***************************************************************************)
(* ALBIngresses.RemovedIngresses: the ingresses of the list held that the  *)
(* new list no longer has and that still have a load balancer.             *)
(***************************************************************************)
\* An *ALBIngress as RemovedIngresses reads it: its ID and its load
\* balancer, which is nil or holds a desired state or none.
HeldALBIngresses ==
    [Id : IngressIds,
     LoadBalancer : {Nil, Ref([Desired |-> Nil]), Ref([Desired |-> Ref("desired")])}]

\* A faulty variant of Find: the first element of the list is not looked at.
FindFromSecond(a, b) ==
    IF \E p \in 2..Len(a) : a[p].Id = b.Id
        THEN (CHOOSE p \in 2..Len(a) : a[p].Id = b.Id /\ \A q \in 2..(p - 1) : a[q].Id # b.Id) - 1
        ELSE 0 - 1

\* ALBIngresses.Find: the position of the first element with the ID of b,
\* or -1.
Find(a, b) ==
    IF \E p \in 1..Len(a) : a[p].Id = b.Id
        THEN (CHOOSE p \in 1..Len(a) : a[p].Id = b.Id /\ \A q \in 1..(p - 1) : a[q].Id # b.Id) - 1
        ELSE 0 - 1

\* ALBIngress.StripDesiredState: the load balancer keeps no desired state.
StripDesiredState(ingress) ==
    [ingress EXCEPT !.LoadBalancer = IF @ = Nil THEN Nil ELSE Ref([@[1] EXCEPT !.Desired = Nil])]

\* The loop of RemovedIngresses from the k-th ingress of the receiver on:
\* the receiver list, whose elements the loop strips in place, and the list
\* to return.
RECURSIVE RemovedFrom(_, _, _, _)
RemovedFrom(a, newList, k, deleteableIngress) ==
    IF k > Len(a) THEN [a |-> a, deleteableIngress |-> deleteableIngress]
    ELSE IF Find(newList, a[k]) < 0 /\ a[k].LoadBalancer # Nil
        THEN RemovedFrom([a EXCEPT ![k] = StripDesiredState(a[k])], newList, k + 1,
                         Append(deleteableIngress, StripDesiredState(a[k])))
        ELSE RemovedFrom(a, newList, k + 1, deleteableIngress)

\* ALBIngresses.RemovedIngresses
RemovedIngresses(a, newList) == RemovedFrom(a, newList, 1, <<>>)

RMInit ==
    /\ rmLists \in [a : SeqsUpTo(HeldALBIngresses, MaxIngresses),
                    newList : SeqsUpTo(HeldALBIngresses, MaxIngresses)]
    /\ rmRes = NoRes

\* The controller asks which ingresses it held are gone.
RMRemoved ==
    /\ ~rmRes.done
    /\ rmRes' = [done |-> TRUE,
                 removed |-> RemovedIngresses(rmLists.a, rmLists.newList)]
    /\ UNCHANGED rmLists
    /\ RMFrame

RMNext == RMRemoved

\* No lists compared, for the other specifications.
RMQuiet ==
    /\ rmLists = Nil
    /\ rmRes = NoRes

(***************************************************************************)
(* Route53 (awsutil/route53.go).  LookupExistingRecord finds the hosted     *)
(* zone of a hostname, through the package's cache or the cloud, and asks   *)
(* the cloud for the record sets of the zone from the hostname on.          *)
(***************************************************************************)
UpperCase ==
    <<"A", "B", "C", "D", "E", "F", "G", "H", "I", "J", "K", "L", "M",
      "N", "O", "P", "Q", "R", "S", "T", "U", "V", "W", "X", "Y", "Z">>

LowerCase ==
    <<"a", "b", "c", "d", "e", "f", "g", "h", "i", "j", "k", "l", "m",
      "n", "o", "p", "q", "r", "s", "t", "u", "v", "w", "x", "y", "z">>

\* strings.ToLower
ToLower(s) ==
    [k \in 1..Len(s) |->
        IF \E u \in 1..Len(UpperCase) : UpperCase[u] = s[k]
            THEN LowerCase[CHOOSE u \in 1..Len(UpperCase) : UpperCase[u] = s[k]]
            ELSE s[k]]

\* strings.TrimSuffix
TrimSuffix(s, suffix) ==
    IF Len(s) >= Len(suffix) /\ SubSeq(s, Len(s) - Len(suffix) + 1, Len(s)) = suffix
        THEN SubSeq(s, 1, Len(s) - Len(suffix))
        ELSE s

Dot == <<".">>

\* The names of the model: two hosts of the zone t.co, written as a client
\* writes them, and the names the cloud keeps, which end with a dot.
HostA == <<"a", ".", "t", ".", "c", "o">>

HostC == <<"c", ".", "t", ".", "c", "o">>

HostAUpper == <<"a", ".", "T", ".", "c", "o", ".">>

HostBare == <<"c", "o">>

ZoneT == [Id |-> "Z-T", Name |-> <<"t", ".", "c", "o", ".">>]

ZoneU == [Id |-> "Z-U", Name |-> <<"u", ".", "c", "o", ".">>]

RecordNames == {ZoneT.Name, HostA \o Dot, HostC \o Dot}

\* The key of a zone in the package's cache.
R53ZoneKey(zone) == <<"r", "5", "3", "z", "o", "n", "e", " ">> \o zone

\* Cache.Get and Cache.Set: the cache is a set of entries, one per key.
ZoneCacheGet(Cache, key) ==
    IF \E e \in Cache : e.key = key
        THEN Ref((CHOOSE e \in Cache : e.key = key).item)
        ELSE Nil

ZoneCacheSet(Cache, key, item) ==
    {e \in Cache : e.key # key} \cup {[key |-> key, item |-> item]}

\* The order in which the cloud lists names: by their labels from the last
\* to the first, without regard to case or to the closing dot.
ListOrderKey(name) ==
    LET labels == Split(TrimSuffix(ToLower(name), Dot), ".")
    IN  Join([k \in 1..Len(labels) |-> labels[Len(labels) + 1 - k]], Dot)

ListedBefore(n1, n2) == StringLess(ListOrderKey(n1), ListOrderKey(n2))

\* The elements of S that are not listed before start, in list order.
RECURSIVE ListedFrom(_, _)
ListedFrom(S, start) ==
    LET rest == {e \in S : ~ListedBefore(e.Name, start)}
    IN  IF rest = {} THEN <<>>
        ELSE LET first == CHOOSE e \in rest : \A o \in rest : ~ListedBefore(o.Name, e.Name)
             IN  <<first>> \o ListedFrom(rest \ {first}, start)

\* Route53 ListHostedZonesByName: the hosted zones from DNSName on.
ListHostedZonesByName(cloud, DNSName) == ListedFrom(cloud.zones, DNSName)

\* Route53 ListResourceRecordSets: at most MaxItems record sets of the zone,
\* from StartRecordName on.
ListResourceRecordSets(cloud, HostedZoneId, MaxItems, StartRecordName) ==
    LET listed == ListedFrom({r \in cloud.records : r.Zone = HostedZoneId}, StartRecordName)
    IN  SubSeq(listed, 1, IF Len(listed) < MaxItems THEN Len(listed) ELSE MaxItems)

\* getDomain: the last two labels of the hostname, in lower case.
getDomain(hostname) ==
    LET domainParts == Split(TrimSuffix(hostname, Dot), ".")
    IN  IF Len(domainParts) < 2
            THEN [domain |-> Nil, err |-> TRUE]
            ELSE [domain |-> Ref(ToLower(Join(SubSeq(domainParts, Len(domainParts) - 1,
                                                     Len(domainParts)), Dot))),
                  err |-> FALSE]

\* GetZoneID once the domain is known: the cached zone, or the zone of that
\* name among those the cloud lists, which is then cached.
GetZoneOfDomain(zone, cloud, Cache, fail) ==
    IF ZoneCacheGet(Cache, R53ZoneKey(zone)) # Nil
        THEN [zone |-> ZoneCacheGet(Cache, R53ZoneKey(zone)), err |-> FALSE,
              Cache |-> Cache, calls |-> <<>>]
    ELSE IF fail = "ListHostedZonesByName"
        THEN [zone |-> Nil, err |-> TRUE, Cache |-> Cache,
              calls |-> <<"ListHostedZonesByName">>]
    ELSE LET resp == ListHostedZonesByName(cloud, zone)
             found == {k \in 1..Len(resp) : TrimSuffix(resp[k].Name, Dot) = zone}
         IN  IF Len(resp) = 0 \/ found = {}
                 THEN [zone |-> Nil, err |-> TRUE, Cache |-> Cache,
                       calls |-> <<"ListHostedZonesByName">>]
                 ELSE LET i == resp[CHOOSE k \in found : \A j \in found : k <= j]
                      IN  [zone |-> Ref(i), err |-> FALSE,
                           Cache |-> ZoneCacheSet(Cache, R53ZoneKey(zone), i),
                           calls |-> <<"ListHostedZonesByName">>]

\* GetZoneID
GetZoneID(hostname, cloud, Cache, fail) ==
    IF hostname = Nil
        THEN [zone |-> Nil, err |-> TRUE, Cache |-> Cache, calls |-> <<>>]
    ELSE IF getDomain(hostname[1]).err
        THEN [zone |-> Nil, err |-> TRUE, Cache |-> Cache, calls |-> <<>>]
    ELSE GetZoneOfDomain(getDomain(hostname[1]).domain[1], cloud, Cache, fail)

\* DescribeResourceRecordSets: the first record set the cloud lists from the
\* hostname on.  The cloud refuses the call for a zone it does not have.
DescribeResourceRecordSets(zoneID, hostname, cloud, fail) ==
    IF fail = "ListResourceRecordSets" \/ \A z \in cloud.zones : z.Id # zoneID
        THEN [rrs |-> Nil, err |-> TRUE]
    ELSE LET resp == ListResourceRecordSets(cloud, zoneID, 1, hostname[1])
         IN  IF Len(resp) = 0
                 THEN [rrs |-> Nil, err |-> TRUE]
                 ELSE [rrs |-> Ref(resp[1]), err |-> FALSE]

\* LookupExistingRecord, given the outcome of GetZoneID.
LookupInZone(hostname, cloud, fail, zone) ==
    IF zone.err
        THEN [done |-> TRUE, rrs |-> Nil, Cache |-> zone.Cache, calls |-> zone.calls,
              err |-> TRUE]
    ELSE LET described == DescribeResourceRecordSets(zone.zone[1].Id, hostname, cloud, fail)
         IN  [done |-> TRUE,
              rrs |-> IF described.err THEN Nil ELSE described.rrs,
              Cache |-> zone.Cache,
              calls |-> Append(zone.calls, "ListResourceRecordSets"),
              err |-> described.err]

\* LookupExistingRecord
LookupExistingRecord(hostname, cloud, Cache, fail) ==
    LookupInZone(hostname, cloud, fail, GetZoneID(hostname, cloud, Cache, fail))

\* The clouds of the model: the zone t.co with some of its records, the
\* zone u.co without records, or neither.
R53Clouds ==
    {[zones |-> zones, records |-> {[Zone |-> ZoneT.Id, Name |-> n] : n \in names}] :
        zones \in SUBSET {ZoneT, ZoneU}, names \in SUBSET RecordNames}

R53Init ==
    /\ r53In \in [hostname : {Nil, Ref(HostA), Ref(HostC), Ref(HostAUpper), Ref(HostBare)},
                  cloud : {c \in R53Clouds : ZoneT \in c.zones \/ c.records = {}},
                  Cache : {{}, {[key |-> R53ZoneKey(TrimSuffix(ZoneT.Name, Dot)),
                                 item |-> ZoneT]}}]
    /\ r53Res = NoRes

\* A caller looks the record of the hostname up; `fail` names the cloud
\* call that returns an error in this lookup, if it is reached.
R53Lookup(fail) ==
    /\ ~r53Res.done
    /\ r53Res' = LookupExistingRecord(r53In.hostname, r53In.cloud, r53In.Cache, fail)
    /\ UNCHANGED r53In
    /\ R53Frame

R53Next ==
    \E fail \in {"none", "ListHostedZonesByName", "ListResourceRecordSets"} : R53Lookup(fail)

\* No lookup, for the other specifications.
R53Quiet ==
    /\ r53In = Nil
    /\ r53Res = NoRes

(***************************************************************************)
(* AssembleIngressesFromAWS.  The function lists the load balancers of the  *)
(* cluster, starts one goroutine per load balancer and waits for all of     *)
(* them; each goroutine builds the ingress of its load balancer and appends *)
(* it to the variable `ingresses`, which all of them share without a lock.  *)
(* An append is a read of the variable and a write of the longer list, and  *)
(* steps of other goroutines may come between the two.                      *)
(***************************************************************************)
MaxLoadBalancers == 3

\* albingress.NewALBIngressFromAWSLoadBalancer: the ingress of a load balancer.
NewALBIngressFromAWSLoadBalancer(loadBalancer) == [LoadBalancer |-> loadBalancer]

Goroutines == 1..Len(asmLbs)

ASMInit ==
    /\ asmLbs \in {[k \in 1..n |-> k] : n \in 0..MaxLoadBalancers}
    /\ asmPc = "start"
    /\ asmWg = 0
    /\ asmG = <<>>
    /\ asmIngresses = <<>>
    /\ asmRes = NoRes

\* ClusterLoadBalancers, wg.Add and the loop that starts the goroutines; the
\* process exits when the load balancers cannot be listed.
ASMStart(fail) ==
    /\ asmPc = "start"
    /\ IF fail
          THEN /\ asmPc' = "exited"
               /\ UNCHANGED <<asmWg, asmG>>
          ELSE /\ asmPc' = "wait"
               /\ asmWg' = Len(asmLbs)
               /\ asmG' = [g \in Goroutines |->
                              [pc |-> "new", loadBalancer |-> asmLbs[g],
                               albIngress |-> Nil, read |-> <<>>]]
    /\ UNCHANGED <<asmLbs, asmIngresses, asmRes>>
    /\ ASMFrame

\* A goroutine builds the ingress of its load balancer; the process exits
\* when that fails.
ASMNewIngress(g, fail) ==
    /\ asmPc = "wait"
    /\ asmG[g].pc = "new"
    /\ IF fail
          THEN /\ asmPc' = "exited"
               /\ UNCHANGED asmG
          ELSE /\ asmG' = [asmG EXCEPT ![g].pc = "append",
                              ![g].albIngress =
                                  Ref(NewALBIngressFromAWSLoadBalancer(asmG[g].loadBalancer))]
               /\ UNCHANGED asmPc
    /\ UNCHANGED <<asmLbs, asmWg, asmIngresses, asmRes>>
    /\ ASMFrame

\* append(ingresses, albIngress), first half: the goroutine reads the list.
ASMReadIngresses(g) ==
    /\ asmPc = "wait"
    /\ asmG[g].pc = "append"
    /\ asmG' = [asmG EXCEPT ![g].pc = "assign", ![g].read = asmIngresses]
    /\ UNCHANGED <<asmLbs, asmPc, asmWg, asmIngresses, asmRes>>
    /\ ASMFrame

\* ingresses = append(...), second half: the goroutine writes the list it
\* read, one element longer.
ASMAssignIngresses(g) ==
    /\ asmPc = "wait"
    /\ asmG[g].pc = "assign"
    /\ asmIngresses' = Append(asmG[g].read, asmG[g].albIngress[1])
    /\ asmG' = [asmG EXCEPT ![g].pc = "return"]
    /\ UNCHANGED <<asmLbs, asmPc, asmWg, asmRes>>
    /\ ASMFrame

\* The goroutine returns: the deferred wg.Done.
ASMDone(g) ==
    /\ asmPc = "wait"
    /\ asmG[g].pc = "return"
    /\ asmWg' = asmWg - 1
    /\ asmG' = [asmG EXCEPT ![g].pc = "finished"]
    /\ UNCHANGED <<asmLbs, asmPc, asmIngresses, asmRes>>
    /\ ASMFrame

\* wg.Wait returns when the counter is zero, and the function returns the
\* list.
ASMReturn ==
    /\ asmPc = "wait"
    /\ asmWg = 0
    /\ asmPc' = "returned"
    /\ asmRes' = [done |-> TRUE, ingresses |-> asmIngresses]
    /\ UNCHANGED <<asmLbs, asmWg, asmG, asmIngresses>>
    /\ ASMFrame

ASMNext ==
    \/ \E fail \in BOOLEAN : ASMStart(fail)
    \/ \E g \in Goroutines, fail \in BOOLEAN : ASMNewIngress(g, fail)
    \/ \E g \in Goroutines : ASMReadIngresses(g)
    \/ \E g \in Goroutines : ASMAssignIngresses(g)
    \/ \E g \in Goroutines : ASMDone(g)
    \/ ASMReturn

\* No assembly, for the other specifications.
ASMQuiet ==
    /\ asmLbs = Nil
    /\ asmPc = "quiet"
    /\ asmWg = 0
    /\ asmG = Nil
    /\ asmIngresses = Nil
    /\ asmRes = NoRes

(***************************************************************************)
(* Specifications.                                                         *)
(***************************************************************************)
InitEq == EQInit /\ GRInit /\ SGQuiet /\ CTLQuiet /\ WAFQuiet /\ ANNQuiet /\ TGQuiet /\ ALBQuiet /\ RMQuiet /\ R53Quiet /\ ASMQuiet

NextEq == EQNext

InitSG == SGInit /\ GRInit /\ EQQuiet /\ CTLQuiet /\ WAFQuiet /\ ANNQuiet /\ TGQuiet /\ ALBQuiet /\ RMQuiet /\ R53Quiet /\ ASMQuiet

NextSG == SGNext

SpecSG == InitSG /\ [][NextSG]_vars

InitCtl == CTLInit /\ GRInit /\ EQQuiet /\ SGQuiet /\ WAFQuiet /\ ANNQuiet /\ TGQuiet /\ ALBQuiet /\ RMQuiet /\ R53Quiet /\ ASMQuiet

NextCtl == CTLNext

SpecCtl == InitCtl /\ [][NextCtl]_vars

InitWaf == WAFInit /\ GRInit /\ EQQuiet /\ SGQuiet /\ CTLQuiet /\ ANNQuiet /\ TGQuiet /\ ALBQuiet /\ RMQuiet /\ R53Quiet /\ ASMQuiet

NextWaf == WAFNext

SpecWaf == InitWaf /\ [][NextWaf]_vars

InitAnn == ANNInit /\ GRInit /\ EQQuiet /\ SGQuiet /\ CTLQuiet /\ WAFQuiet /\ TGQuiet /\ ALBQuiet /\ RMQuiet /\ R53Quiet /\ ASMQuiet

NextAnn == ANNNext

SpecAnn == InitAnn /\ [][NextAnn]_vars

InitTg == TGInit /\ GRInit /\ EQQuiet /\ SGQuiet /\ CTLQuiet /\ WAFQuiet /\ ANNQuiet /\ ALBQuiet /\ RMQuiet /\ R53Quiet /\ ASMQuiet

NextTg == TGNext

SpecTg == InitTg /\ [][NextTg]_vars

InitAlb ==
    /\ ALBInit
    /\ GRInit /\ EQQuiet /\ SGQuiet /\ CTLQuiet /\ WAFQuiet /\ ANNQuiet /\ TGQuiet /\ RMQuiet /\ R53Quiet /\ ASMQuiet

NextAlb == ALBNext

SpecAlb == InitAlb /\ [][NextAlb]_vars

InitRm ==
    /\ RMInit
    /\ GRInit /\ EQQuiet /\ SGQuiet /\ CTLQuiet /\ WAFQuiet /\ ANNQuiet /\ TGQuiet /\ ALBQuiet /\ R53Quiet /\ ASMQuiet

NextRm == RMNext

SpecRm == InitRm /\ [][NextRm]_vars

InitR53 ==
    /\ R53Init
    /\ GRInit /\ EQQuiet /\ SGQuiet /\ CTLQuiet /\ WAFQuiet /\ ANNQuiet /\ TGQuiet /\ ALBQuiet /\ RMQuiet /\ ASMQuiet

NextR53 == R53Next

SpecR53 == InitR53 /\ [][NextR53]_vars

InitAsm ==
    /\ ASMInit
    /\ GRInit /\ EQQuiet /\ SGQuiet /\ CTLQuiet /\ WAFQuiet /\ ANNQuiet /\ TGQuiet /\ ALBQuiet /\ RMQuiet /\ R53Quiet

NextAsm == ASMNext

SpecAsm == InitAsm /\ [][NextAsm]_vars

\* The options and their defaults: the ingresses that differ in their option
\* annotations only, parsed by targetGroup.Parse, and the annotation maps
\* that differ in their options, parsed by parseAnnotations.
TgOptionIngresses ==
    {[targetType |-> Nil, DefaultTargetType |-> TargetTypeEnumInstance,
      backendProtocol |-> bp, healthyThresholdCount |-> h, unhealthyThresholdCount |-> u,
      successCodesLegacy |-> sl, successCodes |-> sc, tokens |-> Nil, attributes |-> Nil] :
        bp \in {Nil, Ref("HTTPS")},
        h \in {Nil, Ref(3)},
        u \in {Nil, Ref(5)},
        sl \in {Nil, Ref("404")},
        sc \in {Nil, Ref("200-299")}}

OptionMaps ==
    {annotations \in AnnotationMaps :
        /\ Lookup(annotations, subnetsKey) = SubnetOne.Id
        /\ Lookup(annotations, securityGroupsKey) = GroupOne.Id}

InitOptions ==
    /\ ANNInit
    /\ tgIng \in TgOptionIngresses
    /\ tgRes = NoRes
    /\ GRInit /\ EQQuiet /\ SGQuiet /\ CTLQuiet /\ WAFQuiet /\ ALBQuiet /\ RMQuiet /\ R53Quiet /\ ASMQuiet

NextOptions ==
    \/ AnnParse("none")
    \/ \E annotations \in OptionMaps : AnnNewMap(annotations)
    \/ TGParse

SpecOptions == InitOptions /\ [][NextOptions]_vars

Init == GRInit /\ EQQuiet /\ SGQuiet /\ CTLQuiet /\ WAFQuiet /\ ANNQuiet /\ TGQuiet /\ ALBQuiet /\ RMQuiet /\ R53Quiet /\ ASMQuiet

Next == GRNext

Spec == Init /\ [][Next]_vars

SpecEq == InitEq /\ [][NextEq]_vars

(***************************************************************************)
(* Claims on GroupReconciler.Reconcile.                                    *)
(***************************************************************************)
\* The steps that come before RemoveGroupFinalizer.
StepsBeforeRemove == {StepOrder[k] : k \in 1..6}

(***************************************************************************)
(* C1: the group finalizer is removed from inactive members only in a run  *)
(* in which Deploy returned no error.  RemoveGroupFinalizer is called only *)
(* after Load, AddGroupFinalizer, Build, Marshal, Deploy and the ARN       *)
(* resolution all succeeded in that run; in a run where one of them fails  *)
(* every ingress that had the finalizer keeps it; and an ingress whose     *)
(* rules are in the deployed stack always has its finalizer.               *)
(***************************************************************************)
C1_FinalizerRemovedOnlyAfterDeploy ==
    /\ Called("RemoveGroupFinalizer") => \A st \in StepsBeforeRemove : Succeeded(st)
    /\ (\E st \in StepsBeforeRemove : Failed(st)) =>
          /\ ~Called("RemoveGroupFinalizer")
          /\ grFinAtLoad \subseteq ingFinalizer
          /\ grGroup.InactiveMembers \subseteq ingFinalizer
    /\ grDeployed \subseteq ingFinalizer

\* A run in which Deploy failed while the group had an inactive member.
C1_Witness ==
    /\ Failed("Deploy")
    /\ grResult = "err"
    /\ grGroup.InactiveMembers # {}

(***************************************************************************)
(* C2: Build, and so Deploy, is called only after AddGroupFinalizer was    *)
(* called and succeeded in the same run, and from then on every active     *)
(* member of the loaded group carries the finalizer.                       *)
(***************************************************************************)
C2_FinalizerAddedBeforeBuild ==
    (Called("Build") \/ Called("Deploy")) =>
        /\ \E j, k \in 1..Len(grCalls) :
              /\ j < k
              /\ grCalls[j] = Call("AddGroupFinalizer", TRUE)
              /\ grCalls[k].call = "Build"
        /\ grGroup.Members \subseteq ingFinalizer

\* Build was called for a group with a member that had no finalizer at load.
C2_Witness ==
    /\ Called("Build")
    /\ grGroup.Members \ grFinAtLoad # {}

(***************************************************************************)
(* C3: a run makes its calls in the order Load, AddGroupFinalizer, Build,  *)
(* Marshal, Deploy, Resolve, RemoveGroupFinalizer; a failed call is the    *)
(* last call of its run and makes the run return the error; a run returns  *)
(* without error only after all seven calls succeeded.                     *)
(***************************************************************************)
C3_StepsInOrderFirstFailureReturns ==
    /\ Len(grCalls) <= Len(StepOrder)
    /\ \A k \in 1..Len(grCalls) : grCalls[k].call = StepOrder[k]
    /\ \A k \in 1..Len(grCalls) :
          ~grCalls[k].ok => (k = Len(grCalls) /\ grResult = "err" /\ grPc = "Load")
    /\ grResult = "err" => (grCalls # <<>> /\ ~grCalls[Len(grCalls)].ok)
    /\ grResult = "ok" =>
          (Len(grCalls) = Len(StepOrder) /\ \A k \in 1..Len(grCalls) : grCalls[k].ok)
    /\ grResult = "running" =>
          (grCalls # <<>> /\ grPc = StepOrder[Len(grCalls) + 1])

\* A run that returned the error of Build after two successful steps.
C3_Witness ==
    /\ grResult = "err"
    /\ Len(grCalls) = 3
    /\ Failed("Build")

(***************************************************************************)
(* C4, as claimed: when the loaded group has no active member, a run whose *)
(* Deploy succeeded ends without error and with no inactive member of the  *)
(* group carrying the finalizer.                                           *)
(***************************************************************************)
C4_Original ==
    (/\ grPc = "Load"
     /\ Succeeded("Deploy")
     /\ grGroup.Members = {}) =>
        /\ grResult = "ok"
        /\ grGroup.InactiveMembers \cap ingFinalizer = {}

(***************************************************************************)
(* C4, amended: when the loaded group has no active member, a run whose    *)
(* Deploy, ARN resolution and RemoveGroupFinalizer all succeeded ends      *)
(* without error and with no inactive member of the group carrying the     *)
(* finalizer.                                                              *)
(***************************************************************************)
C4_TeardownReleasesFinalizers ==
    (/\ grPc = "Load"
     /\ Succeeded("Deploy")
     /\ Succeeded("Resolve")
     /\ Succeeded("RemoveGroupFinalizer")
     /\ grGroup.Members = {}) =>
        /\ grResult = "ok"
        /\ grGroup.InactiveMembers \cap ingFinalizer = {}

\* A finished teardown: no active member, an inactive one that had the
\* finalizer, and the run returned without error.
C4_Witness ==
    /\ grPc = "Load"
    /\ grResult = "ok"
    /\ grGroup.Members = {}
    /\ grGroup.InactiveMembers # {}
    /\ grGroup.InactiveMembers \subseteq grFinAtLoad

(***************************************************************************)
(* Claims on the security group controller.                                *)
(***************************************************************************)
\* The security group `id` as the cloud holds it now.
SgOf(cloud, id) == CHOOSE g \in cloud : g.GroupId = id

SgExists(cloud, id) == \E g \in cloud : g.GroupId = id

\* The calls of the last operation that change or delete a group.
Modifying ==
    {"AuthorizeSecurityGroupIngress", "RevokeSecurityGroupIngress", "DeleteSecurityGroup"}

\* Whether the permissions of a group equal the desired list as sets.
SamePermissions(current, desired) ==
    /\ \A c \in current : \E k \in 1..Len(desired) : ipPermissionEquals(c, desired[k])
    /\ \A k \in 1..Len(desired) : \E c \in current : ipPermissionEquals(desired[k], c)

(***************************************************************************)
(* C5: the controller never modifies or deletes a security group that      *)
(* lacks the managed-by tag.  Every authorize, revoke or delete call of    *)
(* Reconcile or Delete whose target existed before the operation has a     *)
(* target that carried the tag.                                            *)
(***************************************************************************)
C5_OnlyManagedGroupsTouched ==
    sgLast.op \in {"Reconcile", "Delete"} =>
        \A k \in 1..Len(sgLast.calls) :
            (/\ sgLast.calls[k].api \in Modifying
             /\ SgExists(sgLast.pre, sgLast.calls[k].target)) =>
                IsManaged(sgLast.pre, sgLast.calls[k].target)

(***************************************************************************)
(* C6: every security group the controller creates carries the managed-by  *)
(* tag and the group tag.  After a Reconcile that issued a create call     *)
(* which succeeded, whether the Reconcile then returned nil or an error,   *)
(* the created group has both tags.                                        *)
(***************************************************************************)
C6_CreatedGroupsTagged ==
    sgLast.op = "Reconcile" =>
        \A k \in 1..Len(sgLast.calls) :
            (sgLast.calls[k].api = "CreateSecurityGroup" /\ sgLast.calls[k].ok) =>
                LET g == SgOf(sgCloud, sgLast.calls[k].target)
                IN  /\ ManagedByTag \in g.Tags
                    /\ \E t \in g.Tags : t[1] = "group"

(***************************************************************************)
(* C7: reconciliation is idempotent.  A Reconcile that follows a Reconcile *)
(* which returned nil, with the same specification (as Reconcile left it,  *)
(* or built again) and no change of the cloud in between, issues no        *)
(* create, authorize, revoke or tag call and leaves the cloud as it was.   *)
(***************************************************************************)
C7_ReconcileIdempotent ==
    (sgLast.op = "Reconcile" /\ sgLast.settled) =>
        /\ sgLast.calls = <<>>
        /\ sgCloud = sgLast.pre

\* A second Reconcile of a specification built again, by name only, with
\* permissions to keep.
C7_Witness ==
    /\ sgLast.op = "Reconcile"
    /\ sgLast.settled
    /\ ~sgLast.err
    /\ sgLast.spec.GroupID = Nil
    /\ sgLast.spec.InboundPermissions # <<>>

(***************************************************************************)
(* C8: reconciliation converges after a partial failure.  Once a group was *)
(* created by a Reconcile, a Reconcile of that group which returns nil     *)
(* leaves it with exactly the desired inbound permissions and with its     *)
(* Name and managed-by tags set.                                           *)
(***************************************************************************)
C8_ConvergesAfterPartialFailure ==
    (/\ sgLast.op = "Reconcile"
     /\ ~sgLast.err
     /\ sgGroup.GroupID # Nil
     /\ SgExists(sgCloud, sgGroup.GroupID[1])
     /\ SgOf(sgCloud, sgGroup.GroupID[1]).byController) =>
        LET g == SgOf(sgCloud, sgGroup.GroupID[1])
        IN  /\ SamePermissions(g.IpPermissions, sgGroup.InboundPermissions)
            /\ NameTag(g.GroupName) \in g.Tags
            /\ ManagedByTag \in g.Tags

(***************************************************************************)
(* C9: when Reconcile finds an existing group, it revokes exactly the      *)
(* current permissions that equal no desired one and grants exactly the    *)
(* desired permissions that equal no current one, each in one call to the  *)
(* group found, and makes no call for an empty list; the grant is not      *)
(* attempted when the revoke fails.                                        *)
(***************************************************************************)
C9_RevokeAndGrantAreTheDifferences ==
    (sgLast.op = "Reconcile" /\ sgLast.instance # Nil) =>
        LET current == sgLast.instance[1].IpPermissions
            desired == sgLast.spec.InboundPermissions
            InNoDesired(c) == \A k \in 1..Len(desired) : ~ipPermissionEquals(c, desired[k])
            InNoCurrent(d) == \A k \in 1..Len(current) : ~ipPermissionEquals(d, current[k])
            toRevoke == SelectSeq(current, InNoDesired)
            toGrant == SelectSeq(desired, InNoCurrent)
            IsRevoke(c) == c.api = "RevokeSecurityGroupIngress"
            IsGrant(c) == c.api = "AuthorizeSecurityGroupIngress"
            revokes == SelectSeq(sgLast.calls, IsRevoke)
            grants == SelectSeq(sgLast.calls, IsGrant)
        IN  /\ sgLast.calls = revokes \o grants
            /\ Len(revokes) <= 1 /\ Len(grants) <= 1
            /\ \A k \in 1..Len(sgLast.calls) :
                  sgLast.calls[k].target = sgLast.instance[1].GroupId[1]
            /\ \A k \in 1..Len(revokes) :
                  revokes[k].permissions = toRevoke /\ toRevoke # <<>>
            /\ \A k \in 1..Len(grants) :
                  grants[k].permissions = toGrant /\ toGrant # <<>>
            /\ \A k \in 1..Len(revokes) : ~revokes[k].ok => grants = <<>>
            /\ ~sgLast.err =>
                  /\ Len(revokes) = 1 <=> toRevoke # <<>>
                  /\ Len(grants) = 1 <=> toGrant # <<>>

\* A Reconcile that revoked from an existing group while a current permission
\* equal to a desired one, though not the same, was left alone.
C9_Witness ==
    /\ sgLast.op = "Reconcile"
    /\ sgLast.instance # Nil
    /\ ~sgLast.err
    /\ sgLast.calls # <<>>
    /\ sgLast.calls[1].api = "RevokeSecurityGroupIngress"
    /\ \E i \in 1..Len(sgLast.instance[1].IpPermissions),
          j \in 1..Len(sgLast.spec.InboundPermissions) :
          /\ sgLast.instance[1].IpPermissions[i] # sgLast.spec.InboundPermissions[j]
          /\ ipPermissionEquals(sgLast.instance[1].IpPermissions[i],
                                sgLast.spec.InboundPermissions[j])

(***************************************************************************)
(* C10: ipPermissionEquals holds for two permissions exactly when their    *)
(* protocol, fromPort and toPort are equal (an absent field reading as the *)
(* zero value, as aws.StringValue and aws.Int64Value read it), their       *)
(* IpRanges are equal as sets of CIDRs and their UserIdGroupPairs are      *)
(* equal as sets of group IDs, whatever the UserIds, the order and the     *)
(* repetitions; and the relation is reflexive, symmetric and transitive.   *)
(***************************************************************************)
C10_EqualsIsSetEquality ==
    eqRes.done =>
        /\ eqRes.ab <=> (PermissionKey(eqA) = PermissionKey(eqB))
        /\ eqRes.aa
        /\ eqRes.ab <=> eqRes.ba
        /\ \A c \in EqThird :
              (eqRes.ab /\ ipPermissionEquals(eqB, c)) => ipPermissionEquals(eqA, c)

\* Two permissions found equal although their lists differ in order or
\* repetition and their pairs differ in UserId.
C10_Witness ==
    /\ eqRes.done
    /\ eqRes.ab
    /\ Len(eqA.IpRanges) # Len(eqB.IpRanges)
    /\ \E i \in 1..Len(eqA.UserIdGroupPairs), j \in 1..Len(eqB.UserIdGroupPairs) :
          /\ eqA.UserIdGroupPairs[i].GroupId = eqB.UserIdGroupPairs[j].GroupId
          /\ eqA.UserIdGroupPairs[i].UserId # eqB.UserIdGroupPairs[j].UserId


\* Whether the cloud holds a group of that name.
SgNamed(cloud, name) == \E g \in cloud : g.GroupName = name

(***************************************************************************)
(* C11: Reconcile adopts a group that already exists.  When the            *)
(* specification gives only a GroupName and the cloud holds a group of     *)
(* that name, Reconcile issues no create call and fills in GroupID with    *)
(* the ID of the group found; unless a cloud call fails it returns nil and *)
(* the group then has the desired permissions.                             *)
(***************************************************************************)
C11_ExistingGroupAdoptedByName ==
    (/\ sgLast.op = "Reconcile"
     /\ sgLast.spec.GroupID = Nil
     /\ sgLast.spec.GroupName # Nil
     /\ SgNamed(sgLast.pre, sgLast.spec.GroupName[1])) =>
        /\ \A k \in 1..Len(sgLast.calls) : sgLast.calls[k].api # "CreateSecurityGroup"
        /\ sgLast.instance # Nil =>
              /\ sgLast.instance[1].GroupName = sgLast.spec.GroupName
              /\ sgLast.group.GroupID = sgLast.instance[1].GroupId
        /\ ~sgLast.faulted =>
              /\ ~sgLast.err
              /\ sgLast.instance # Nil
              /\ SamePermissions(SgOf(sgCloud, sgLast.group.GroupID[1]).IpPermissions,
                                 sgLast.spec.InboundPermissions)

\* A Reconcile by name only that found a group made by someone else and
\* changed its permissions.
C11_Witness ==
    /\ sgLast.op = "Reconcile"
    /\ sgLast.spec.GroupID = Nil
    /\ sgLast.spec.GroupName # Nil
    /\ SgNamed(sgLast.pre, sgLast.spec.GroupName[1])
    /\ ~sgLast.err
    /\ sgLast.calls # <<>>
    /\ sgLast.group.GroupID # Nil
    /\ ~SgOf(sgCloud, sgLast.group.GroupID[1]).byController

\* Whether the group a specification identifies is absent from the cloud.
Missing(cloud, group) ==
    IF group.GroupID # Nil THEN ~SgExists(cloud, group.GroupID[1])
    ELSE group.GroupName # Nil /\ ~SgNamed(cloud, group.GroupName[1])

(***************************************************************************)
(* C12: Delete of a security group that the cloud does not hold returns    *)
(* nil, whether the group is identified by GroupID or by GroupName, unless *)
(* a fault of the cloud changes its course; so a second Delete in a row    *)
(* returns no error.                                                       *)
(***************************************************************************)
C12_DeleteOfMissingGroupSucceeds ==
    (/\ sgLast.op = "Delete"
     /\ ~sgLast.faulted
     /\ Missing(sgLast.pre, sgLast.spec)) =>
        ~sgLast.err

(***************************************************************************)
(* C13: after a Reconcile that found the group in the cloud and returned   *)
(* nil, the inbound permissions of that group equal the desired ones as a  *)
(* set under ipPermissionEquals: every desired permission is present and   *)
(* no other remains.                                                       *)
(***************************************************************************)
C13_ExistingGroupPermissionsMatch ==
    (/\ sgLast.op = "Reconcile"
     /\ sgLast.instance # Nil
     /\ ~sgLast.err) =>
        LET id == sgLast.instance[1].GroupId[1]
        IN  /\ SgExists(sgCloud, id)
            /\ SamePermissions(SgOf(sgCloud, id).IpPermissions,
                               sgLast.spec.InboundPermissions)

\* A Reconcile by GroupID that revoked one permission and granted another.
C13_Witness ==
    /\ sgLast.op = "Reconcile"
    /\ sgLast.instance # Nil
    /\ ~sgLast.err
    /\ sgLast.spec.GroupID # Nil
    /\ Len(sgLast.calls) = 2
    /\ sgLast.calls[1].ok
    /\ sgLast.calls[2].ok


(***************************************************************************)
(* Claims on the controller loop.                                          *)
(***************************************************************************)
\* The executions of Reconcile in flight for a group.
InFlight(g) == {w \in Workers : ctlWorker[w] = g}

\* How often a group stands in the queue.
Queued(g) == Cardinality({k \in 1..Len(ctlQ.queue) : ctlQ.queue[k] = g})

(***************************************************************************)
(* C14: at no time are two executions of Reconcile for the same group in   *)
(* flight.  A group whose reconcile runs is not in the queue, however many *)
(* requests arrive for it; the requests mark it, and a group stands in the *)
(* queue at most once, so one follow-up reconcile runs after the current   *)
(* one is done.  A group is queued or marked exactly when a request has    *)
(* been made for it since its last reconcile started.                      *)
(***************************************************************************)
C14_OneReconcilePerGroup ==
    \A g \in Groups :
        /\ Cardinality(InFlight(g)) <= 1
        /\ (InFlight(g) # {}) <=> (g \in ctlQ.processing)
        /\ Queued(g) <= 1
        /\ g \in ctlQ.processing => Queued(g) = 0
        /\ ctlEvents[g] > 0 <=>
              \/ Queued(g) = 1
              \/ g \in ctlQ.processing /\ g \in ctlQ.dirty

\* Two requests arrived for a group while its reconcile was running.
C14_Witness ==
    \E g \in Groups :
        /\ InFlight(g) # {}
        /\ ctlEvents[g] = MaxEvents
        /\ g \in ctlQ.dirty
        /\ Queued(g) = 0

(***************************************************************************)
(* C15: reconciles of two different groups can be in flight at the same    *)
(* time.  While a group is queued and fewer than two reconciles are in     *)
(* flight, a worker is free to start the reconcile of the queued group.    *)
(***************************************************************************)
C15_DifferentGroupsInParallel ==
    (ctlQ.queue # <<>> /\ Cardinality(ctlQ.processing) < 2) =>
        \E w \in Workers : ctlWorker[w] = NoWork


(***************************************************************************)
(* Claims on WafAcl.                                                       *)
(***************************************************************************)
\* C16 as stated: after a Reconcile that returned nil, the current and the
\* desired web ACL of the record are both absent or the same ID, whatever
\* the current, the desired and the LoadBalancerArn were.
C16_Original ==
    (wafLast.op = "Reconcile" /\ ~wafLast.err) =>
        wafLast.post.CurrentWafAclId = wafLast.post.DesiredWafAclId

(***************************************************************************)
(* C16: after a Reconcile of a record with a LoadBalancerArn that returned *)
(* nil, the current and the desired web ACL are both absent or the same    *)
(* ID, and the cloud associates that web ACL, or none, with the load       *)
(* balancer.  A Reconcile of a record without LoadBalancerArn returns nil  *)
(* and leaves the record as it was.                                        *)
(***************************************************************************)
C16_CurrentEqualsDesired ==
    (wafLast.op = "Reconcile" /\ ~wafLast.err) =>
        IF wafLast.pre.LoadBalancerArn # Nil
            THEN /\ wafLast.post.CurrentWafAclId = wafLast.post.DesiredWafAclId
                 /\ wafLast.post.DesiredWafAclId = wafLast.pre.DesiredWafAclId
                 /\ wafLast.calls # <<>> =>
                       wafCloud[wafLast.pre.LoadBalancerArn[1]] = wafLast.pre.DesiredWafAclId
            ELSE wafLast.post = wafLast.pre

\* A Reconcile that replaced one web ACL by another.
C16_Witness ==
    /\ wafLast.op = "Reconcile"
    /\ ~wafLast.err
    /\ wafLast.pre.LoadBalancerArn # Nil
    /\ wafLast.pre.CurrentWafAclId # Nil
    /\ wafLast.pre.DesiredWafAclId # Nil
    /\ wafLast.pre.CurrentWafAclId # wafLast.pre.DesiredWafAclId
    /\ wafLast.calls # <<>>

\* The calls the claim names for a current and a desired web ACL.
WafCallsFor(arn, current, desired, ok) ==
    IF current = desired THEN <<>>
    ELSE IF desired = Nil THEN <<WafCall("Disassociate", arn, Nil, ok)>>
    ELSE <<WafCall("Associate", arn, desired, ok)>>

\* C17 as stated: the calls of Reconcile follow from current and desired
\* only.
C17_Original ==
    wafLast.op = "Reconcile" =>
        /\ wafLast.calls = WafCallsFor(wafLast.pre.LoadBalancerArn,
                                       wafLast.pre.CurrentWafAclId,
                                       wafLast.pre.DesiredWafAclId, ~wafLast.err)
        /\ wafLast.settled => wafLast.calls = <<>>

(***************************************************************************)
(* C17: Reconcile of a record with a LoadBalancerArn makes no call when    *)
(* current and desired are both absent or the same ID, one Disassociate    *)
(* call when desired is absent and current present, and one Associate call *)
(* with the desired ID when desired is present and current is absent or    *)
(* different.  Reconcile of a record without LoadBalancerArn makes no      *)
(* call.  A Reconcile right after one that returned nil makes no call.     *)
(***************************************************************************)
C17_ActionFromCurrentAndDesired ==
    wafLast.op = "Reconcile" =>
        /\ wafLast.calls =
              IF wafLast.pre.LoadBalancerArn = Nil THEN <<>>
              ELSE WafCallsFor(wafLast.pre.LoadBalancerArn,
                               wafLast.pre.CurrentWafAclId,
                               wafLast.pre.DesiredWafAclId, ~wafLast.err)
        /\ wafLast.settled => wafLast.calls = <<>>

\* A Reconcile right after one that associated the desired web ACL.
C17_Witness ==
    /\ wafLast.op = "Reconcile"
    /\ wafLast.settled
    /\ wafLast.pre.LoadBalancerArn # Nil
    /\ wafLast.pre.DesiredWafAclId # Nil
    /\ wafCloud[wafLast.pre.LoadBalancerArn[1]] = wafLast.pre.DesiredWafAclId


(***************************************************************************)
(* Claims on annotation parsing.                                           *)
(***************************************************************************)
(***************************************************************************)
(* C18: parseAnnotations is a pure function of the annotation map.  A call *)
(* makes no cloud call, leaves the map it is given as it was, and returns  *)
(* what a call with an equal map returns when no call was made before,     *)
(* that is, when the cache is empty.                                       *)
(***************************************************************************)
C18_ParseAnnotationsIsPure ==
    annLast.op = "parseAnnotations" =>
        /\ annLast.calls = <<>>
        /\ annLast.post = annLast.pre
        /\ annLast.resp = annLast.fresh.resp
        /\ annLast.err = annLast.fresh.err

\* Whether a token of the comma-separated list holds no `=`.
HasTokenWithoutEquals(s) ==
    \E k \in 1..Len(stringToAwsSlice(s)) :
        \A j \in 1..Len(stringToAwsSlice(s)[k]) : stringToAwsSlice(s)[k][j] # "="

(***************************************************************************)
(* C19: a tags annotation that holds a token which is no key=value pair    *)
(* makes parseAnnotations return an error and no record.                   *)
(***************************************************************************)
C19_MalformedTagFails ==
    (/\ annLast.op = "parseAnnotations"
     /\ HasTokenWithoutEquals(Lookup(annLast.pre, tagsKey))) =>
        /\ annLast.err # Nil
        /\ annLast.resp = Nil

(***************************************************************************)
(* Claims on the target group annotation parser.                           *)
(***************************************************************************)
\* The tokens of the ingress's attributes that are not empty, trimmed.
TgTokens ==
    LET NotEmpty(t) == t # <<>>
    IN  SelectSeq([k \in 1..Len(tgIng.tokens[1]) |-> TrimSpace(tgIng.tokens[1][k])], NotEmpty)

\* Whether a token is key=value: it holds one `=`.
IsKeyValue(t) == Cardinality({j \in 1..Len(t) : t[j] = "="}) = 1

\* The key and the value of a key=value token.
KeyOf(t) == SubSeq(t, 1, (CHOOSE j \in 1..Len(t) : t[j] = "=") - 1)

ValueOf(t) == SubSeq(t, (CHOOSE j \in 1..Len(t) : t[j] = "=") + 1, Len(t))

\* The tokens named by the error of Parse are those that are not key=value,
\* in their order, and no Config is returned.
TgNamesBadTokens ==
    LET NotKeyValue(t) == ~IsKeyValue(t)
    IN  /\ tgRes.config = Nil
        /\ tgRes.err # Nil
        /\ tgRes.err[1].annotation = "target-group-attributes"
        /\ tgRes.err[1].names = Join(SelectSeq(TgTokens, NotKeyValue), <<",", " ">>)

\* Parse succeeded and the attributes are the pairs of the tokens: one
\* attribute per key, with the value of the last token of that key.
TgHoldsThePairs ==
    /\ tgRes.err = Nil
    /\ tgRes.config # Nil
    /\ LET attributes == tgRes.config[1].Attributes
       IN  /\ \A k \in 1..Len(TgTokens) :
                 \E i \in 1..Len(attributes) : attributes[i].Key = KeyOf(TgTokens[k])
           /\ \A i \in 1..Len(attributes) :
                 \E k \in 1..Len(TgTokens) :
                     /\ KeyOf(TgTokens[k]) = attributes[i].Key
                     /\ ValueOf(TgTokens[k]) = attributes[i].Value
                     /\ \A m \in (k + 1)..Len(TgTokens) :
                           KeyOf(TgTokens[m]) # attributes[i].Key
           /\ \A i, j \in 1..Len(attributes) :
                 attributes[i].Key = attributes[j].Key => i = j

\* Whether the target type of the ingress, or else the default, is one Parse
\* accepts.
TgTargetTypeAccepted ==
    IF tgIng.targetType # Nil THEN tgIng.targetType[1] \in {"instance", "pod"}
    ELSE tgIng.DefaultTargetType \in {"instance", "pod"}

SubnetNameTokens(s) ==
    LET IsName(t) == ~HasPrefix(t, SubnetPrefix)
    IN  SelectSeq(stringToAwsSlice(s), IsName)

\* A name resolves to no subnet: the cache does not hold it and no subnet of
\* the cloud carries it as its Name tag.
ResolvesToNoSubnet(name, cache, cloud) ==
    /\ ~Cached(cache, name)
    /\ ~\E r \in cloud.subnets : r.Name = Ref(name)

\* A call of parseAnnotations that went on to resolve: the annotation set
\* was not in the negative cache.
AnnResolving ==
    /\ annLast.op = "parseAnnotations"
    /\ annLast.pre \notin annLast.cache.bad

(***************************************************************************)
(* C21: when a tag-name token of the subnets annotation resolves to no     *)
(* subnet, the resolution fails: parseAnnotations returns an error and no  *)
(* record, and never the record of the tokens that did resolve.            *)
(***************************************************************************)
C21_UnresolvedSubnetNameFails ==
    (/\ AnnResolving
     /\ \E k \in 1..Len(SubnetNameTokens(Lookup(annLast.pre, subnetsKey))) :
           ResolvesToNoSubnet(SubnetNameTokens(Lookup(annLast.pre, subnetsKey))[k],
                              annLast.cache, annCloud)) =>
        /\ annLast.err # Nil
        /\ annLast.resp = Nil

(***************************************************************************)
(* C22: a failure to resolve subnets or security groups is retryable.  A   *)
(* call of parseAnnotations on an annotation set on which an earlier call  *)
(* failed, made when the set parses and its lookups succeed (a call that   *)
(* starts from an empty cache returns a record), returns a record and no   *)
(* error.                                                                  *)
(***************************************************************************)
C22_ResolutionFailureIsRetryable ==
    (/\ annLast.op = "parseAnnotations"
     /\ annLast.pre \in annLast.cache.bad
     /\ annLast.fresh.resp # Nil) =>
        /\ annLast.resp # Nil
        /\ annLast.err = Nil

\* The tokens of a security-groups annotation that are tag names: those
\* without the prefix sg-.
GroupNameTokens(s) ==
    LET IsName(t) == ~HasPrefix(t, SgPrefix)
    IN  SelectSeq(stringToAwsSlice(s), IsName)

\* The names of a list that the cache held when the call started: they are
\* mappings a call before this one obtained from the cloud.
ServedFromCache(names, cache) == {k \in 1..Len(names) : Cached(cache, names[k])}

(***************************************************************************)
(* C23: no cloud response is cached beyond one reconcile.  A call of       *)
(* parseAnnotations resolves no subnet name and no security group name     *)
(* from a mapping that an earlier call put into the cache.                 *)
(***************************************************************************)
C23_NoResponseCachedAcrossReconciles ==
    AnnResolving =>
        /\ ServedFromCache(SubnetNameTokens(Lookup(annLast.pre, subnetsKey)),
                           annLast.cache) = {}
        /\ ServedFromCache(GroupNameTokens(Lookup(annLast.pre, securityGroupsKey)),
                           annLast.cache) = {}

(***************************************************************************)
(* C24: the negative cache stops repeated validation of broken             *)
(* annotations.  A call of parseAnnotations that returns an error leaves   *)
(* the annotation set it was given in the negative cache, and a call on an *)
(* annotation set that is in the negative cache makes no cloud call and    *)
(* returns no record.                                                      *)
(***************************************************************************)
C24_NegativeCacheStopsValidation ==
    annLast.op = "parseAnnotations" =>
        /\ annLast.err # Nil => annLast.pre \in annCache.bad
        /\ annLast.pre \in annLast.cache.bad =>
              /\ annLast.calls = <<>>
              /\ annLast.resp = Nil
              /\ annCache = annLast.cache

\* A call on an annotation set that failed before and names subnets to
\* verify: it made no cloud call.
C24_Witness ==
    /\ annLast.op = "parseAnnotations"
    /\ annLast.pre \in annLast.cache.bad
    /\ Lookup(annLast.pre, subnetsKey) # <<>>
    /\ annLast.calls = <<>>

\* Whether a token is a subnet ID: it starts with subnet-.
IsSubnetId(t) ==
    /\ Len(t) >= 7
    /\ SubSeq(t, 1, 7) = <<"s", "u", "b", "n", "e", "t", "-">>

\* The tokens of the subnets annotation of the call: the parts between
\* commas, trimmed, the empty ones left out.
SubnetTokens == stringToAwsSlice(Lookup(annLast.pre, subnetsKey))

\* The tag names among them that the cache did not hold when the call
\* started, in their order.
UncachedSubnetNames ==
    LET Uncached(t) == ~IsSubnetId(t) /\ t \notin DOMAIN annLast.cache.ids
    IN  SelectSeq(SubnetTokens, Uncached)

\* The list calls of the call that are filtered by Name tag for subnets.
SubnetLookups ==
    LET IsLookup(c) == c.api = "DescribeSubnets" /\ c.names # <<>>
    IN  SelectSeq(annLast.calls, IsLookup)

(***************************************************************************)
(* C25: in subnet resolution every token that starts with subnet- is in    *)
(* the result as it was written; the tag names that are not cached are     *)
(* looked up together, in at most one list call filtered by Name tag, and  *)
(* that call asks for exactly those names; a name that is cached is in no  *)
(* lookup, and when every name is cached no lookup is made.                *)
(***************************************************************************)
C25_IdsPassThroughNamesLookedUpOnce ==
    AnnResolving =>
        /\ annLast.resp # Nil =>
              \A k \in 1..Len(SubnetTokens) :
                  IsSubnetId(SubnetTokens[k]) =>
                      \E i \in 1..Len(annLast.resp[1].subnets) :
                          annLast.resp[1].subnets[i] = SubnetTokens[k]
        /\ Len(SubnetLookups) <= 1
        /\ \A i \in 1..Len(SubnetLookups) :
              /\ SubnetLookups[i].names = UncachedSubnetNames
              /\ SubnetLookups[i].ids = <<>>
        /\ UncachedSubnetNames = <<>> => SubnetLookups = <<>>

\* A call that resolved a list of a subnet ID and a tag name: one lookup.
C25_Witness ==
    /\ AnnResolving
    /\ annLast.resp # Nil
    /\ \E k \in 1..Len(SubnetTokens) : IsSubnetId(SubnetTokens[k])
    /\ Len(SubnetLookups) = 1
    /\ Len(annLast.resp[1].subnets) = 2

\* The tokens of the port annotation of the call: the parts between commas.
PortTokens == Split(Lookup(annLast.pre, portKey), ",")

\* Whether a token is a decimal number.
IsNumber(t) == t # <<>> /\ \A j \in 1..Len(t) : IsDigit(t[j])

(***************************************************************************)
(* C26: the ports of the record are the single port 80 when neither a port *)
(* nor a certificate is annotated, the single port 443 when no port is     *)
(* annotated and a certificate is, and otherwise one port per token of the *)
(* port annotation, in the order of the tokens, a token that is a decimal  *)
(* number giving that number; the ports are never empty.                   *)
(***************************************************************************)
C26_PortsDefaultOrListed ==
    (annLast.op = "parseAnnotations" /\ annLast.resp # Nil) =>
        /\ annLast.resp[1].port # <<>>
        /\ IF Lookup(annLast.pre, portKey) # <<>> THEN
               /\ Len(annLast.resp[1].port) = Len(PortTokens)
               /\ \A k \in 1..Len(PortTokens) :
                     IsNumber(PortTokens[k]) =>
                         annLast.resp[1].port[k] = DecimalValue(PortTokens[k])
           ELSE IF Lookup(annLast.pre, certificateArnKey) # <<>> THEN
               annLast.resp[1].port = <<443>>
           ELSE annLast.resp[1].port = <<80>>

\* A record for a port annotation of two tokens.
C26_Witness ==
    /\ annLast.op = "parseAnnotations"
    /\ annLast.resp # Nil
    /\ Len(PortTokens) = 2
    /\ annLast.resp[1].port[1] = 80

(***************************************************************************)
(* Claims on the options and their defaults.                               *)
(***************************************************************************)
\* The value of an option of the annotation map of the call, or the default
\* when the map does not hold the option.
OptionOr(key, default) ==
    IF key \in DOMAIN annLast.pre /\ annLast.pre[key] # <<>>
        THEN Ref(annLast.pre[key]) ELSE Ref(default)

(***************************************************************************)
(* C27: an option that is not annotated takes its default, an option that  *)
(* is annotated takes the annotated value.  In the Config of               *)
(* targetGroup.Parse the backend protocol defaults to HTTP, the healthy    *)
(* and the unhealthy threshold count to 2 and the success codes to 200,    *)
(* where the success-codes annotation goes before the successCodes one; in *)
(* the record of parseAnnotations the health-check path defaults to /, the *)
(* success codes to 200 and the backend protocol to HTTP.                  *)
(***************************************************************************)
C27_AbsentOptionsTakeDefaults ==
    /\ (tgRes.done /\ tgRes.config # Nil) =>
          /\ tgRes.config[1].BackendProtocol =
                IF tgIng.backendProtocol = Nil THEN Ref("HTTP") ELSE tgIng.backendProtocol
          /\ tgRes.config[1].HealthyThresholdCount =
                IF tgIng.healthyThresholdCount = Nil THEN Ref(2)
                ELSE tgIng.healthyThresholdCount
          /\ tgRes.config[1].UnhealthyThresholdCount =
                IF tgIng.unhealthyThresholdCount = Nil THEN Ref(2)
                ELSE tgIng.unhealthyThresholdCount
          /\ tgRes.config[1].SuccessCodes =
                IF tgIng.successCodes # Nil THEN tgIng.successCodes
                ELSE IF tgIng.successCodesLegacy # Nil THEN tgIng.successCodesLegacy
                ELSE Ref("200")
    /\ (annLast.op = "parseAnnotations" /\ annLast.resp # Nil) =>
          /\ annLast.resp[1].healthcheckPath = OptionOr(healthcheckPathKey, <<"/">>)
          /\ annLast.resp[1].successCodes = OptionOr(successCodesKey, <<"2", "0", "0">>)
          /\ annLast.resp[1].backendProtocol =
                OptionOr(backendProtocolKey, <<"H", "T", "T", "P">>)

\* Both parsers returned, each for an option left out and an option given.
C27_Witness ==
    /\ tgRes.done
    /\ tgRes.config # Nil
    /\ tgIng.backendProtocol = Nil
    /\ tgIng.healthyThresholdCount # Nil
    /\ annLast.op = "parseAnnotations"
    /\ annLast.resp # Nil
    /\ healthcheckPathKey \in DOMAIN annLast.pre
    /\ successCodesKey \in DOMAIN annLast.pre
    /\ annLast.resp[1].successCodes = Ref(<<"4", "0", "4">>)

\* Parse refused the target type: no Config and the invalid-annotation error
\* of target-type.
TgTargetTypeRefused ==
    /\ tgRes.config = Nil
    /\ tgRes.err # Nil
    /\ tgRes.err[1].annotation = "target-type"

(***************************************************************************)
(* C28: the target group parser accepts a target-type annotation exactly   *)
(* when its value is instance or ip.  With one of these values Parse does  *)
(* not return the error of target-type; with any other value it returns    *)
(* that error and no Config.                                               *)
(***************************************************************************)
C28_TargetTypeInstanceOrIp ==
    (tgRes.done /\ tgIng.targetType # Nil) =>
        (tgIng.targetType[1] \in {"instance", "ip"} <=> ~TgTargetTypeRefused)

\* Whether the scheme annotation of the call is one of the two schemes.
SchemeValid ==
    Lookup(annLast.pre, schemeKey) \in
        {<<"i", "n", "t", "e", "r", "n", "a", "l">>,
         <<"i", "n", "t", "e", "r", "n", "e", "t", "-", "f", "a", "c", "i", "n", "g">>}

\* The errors of parseScheme.
SchemeErrors == {Ref("scheme missing"), Ref("scheme invalid")}

(***************************************************************************)
(* C29: parseScheme succeeds exactly when the scheme is internal or        *)
(* internet-facing and then returns it as it is.  A call of                *)
(* parseAnnotations that goes on to parse returns an error of the scheme   *)
(* only for another value; for another value, or none, it returns an error *)
(* and no record, the error of the scheme when subnets and security groups *)
(* resolved; and a record holds the scheme as annotated.                   *)
(***************************************************************************)
C29_SchemeInternalOrInternetFacing ==
    AnnResolving =>
        /\ annLast.err \in SchemeErrors => ~SchemeValid
        /\ ~SchemeValid =>
              /\ annLast.err # Nil
              /\ annLast.resp = Nil
        /\ (~SchemeValid /\ \A k \in 1..Len(annLast.calls) : annLast.calls[k].ok
            /\ annLast.err \notin {Ref("subnets missing"), Ref("no subnets resolved"),
                                   Ref("no security groups resolved")}) =>
              annLast.err = IF Lookup(annLast.pre, schemeKey) = <<>>
                               THEN Ref("scheme missing") ELSE Ref("scheme invalid")
        /\ annLast.resp # Nil =>
              /\ SchemeValid
              /\ annLast.resp[1].scheme = Ref(Lookup(annLast.pre, schemeKey))

\* A call on a scheme that is neither: the error of the scheme.
C29_Witness ==
    /\ AnnResolving
    /\ Lookup(annLast.pre, schemeKey) # <<>>
    /\ ~SchemeValid
    /\ annLast.err = Ref("scheme invalid")
    /\ annLast.resp = Nil

(***************************************************************************)
(* Claims on the list of ALB ingresses.                                    *)
(***************************************************************************)
\* Whether an ingress of the cluster is in scope for the controller: its
\* class is the configured class, or it has no class and the configured
\* class is the default class.
InScope(ingResource) ==
    \/ ingResource.class = albOptions.IngressClass
    \/ /\ ingResource.class = ""
       /\ albOptions.IngressClass = albOptions.DefaultIngressClass

\* The ingresses given that are in scope, in their order.
InScopeIngresses == SelectSeq(albOptions.Ingresses, InScope)

C31_ListHoldsNoNilElement ==
    albIngresses.done =>
        \A k \in 1..Len(albIngresses.list) : albIngresses.list[k] # Nil

\* Whether an ingress of the receiver list is gone: no ingress of the new
\* list has its ID, and it still holds a load balancer.
Gone(ingress) ==
    /\ \A q \in 1..Len(rmLists.newList) : rmLists.newList[q].Id # ingress.Id
    /\ ingress.LoadBalancer # Nil

\* The ingress as it was given, but for the desired state of its load
\* balancer, which is none.
Stripped(after, before) ==
    /\ after.Id = before.Id
    /\ after.LoadBalancer # Nil
    /\ after.LoadBalancer[1].Desired = Nil

SameName(n1, n2) == TrimSuffix(ToLower(n1), Dot) = TrimSuffix(ToLower(n2), Dot)

\* C33: LookupExistingRecord returns the record set of the hostname asked
\* for, or nil: a record set returned bears the name of the hostname, and a
\* lookup in which a step returned an error returns nil.
C33_RecordOfTheHostnameOrNil ==
    r53Res.done =>
        /\ r53Res.rrs # Nil =>
              /\ r53In.hostname # Nil
              /\ SameName(r53Res.rrs[1].Name, r53In.hostname[1])
        /\ r53Res.err => r53Res.rrs = Nil

(***************************************************************************)
(* Claims on AssembleIngressesFromAWS.                                     *)
(***************************************************************************)
\* C34: the list AssembleIngressesFromAWS returns holds exactly one ingress
\* per load balancer of the cluster, whatever the order of the steps of the
\* goroutines, and the function returns after every goroutine has finished.
C34_OneIngressPerLoadBalancer ==
    asmRes.done =>
        /\ Len(asmRes.ingresses) = Len(asmLbs)
        /\ \A g \in Goroutines :
              \E k \in 1..Len(asmRes.ingresses) :
                  asmRes.ingresses[k].LoadBalancer = asmLbs[g]
        /\ \A g \in Goroutines : asmG[g].pc = "finished"

(***************************************************************************)
(* Claims on the errors of WafAcl.Reconcile.                               *)
(***************************************************************************)
WafCallFailed == \E k \in 1..Len(wafLast.calls) : ~wafLast.calls[k].ok

\* C35: a Reconcile whose Associate or Disassociate call failed returns the
\* error and leaves the record as it was, and the current web ACL of the
\* record changes only in a Reconcile with a cloud call that succeeded.
C35_FailedCallLeavesRecord ==
    wafLast.op = "Reconcile" =>
        /\ WafCallFailed =>
              /\ wafLast.err
              /\ wafLast.post = wafLast.pre
              /\ wafAcl = wafLast.pre
        /\ wafLast.post.CurrentWafAclId # wafLast.pre.CurrentWafAclId =>
              \E k \in 1..Len(wafLast.calls) : wafLast.calls[k].ok

\* A Disassociate call failed for a record that has a current web ACL.
C35_Witness ==
    /\ wafLast.op = "Reconcile"
    /\ WafCallFailed
    /\ wafLast.calls[1].api = "Disassociate"
    /\ wafLast.pre.CurrentWafAclId # Nil
    /\ wafLast.err

\* C36: parseAnnotations returns a record or an error: no call, a call
\* answered from the negative cache included, returns neither.
C36_RecordOrError ==
    annLast.op = "parseAnnotations" => (annLast.resp # Nil \/ annLast.err # Nil)

=============================================================================
